---- MODULE Spec2Model ----
(***************************************************************************)
(* ClawForge plugin: the client-side governance engine.                    *)
(*                                                                         *)
(*   policy/tool-enforcer.ts   the before_tool_call hook (authorize)       *)
(*   audit/audit-logger.ts     the audit buffer, its flushes and its file  *)
(*   connection/connection-state.ts   the connection state machine         *)
(*   heartbeat/kill-switch.ts   the heartbeat and the offline modes        *)
(*   auth/token-refresh-manager.ts   the proactive session refresh         *)
(*                                                                         *)
(* Strings the code inspects character by character (tool names, policy    *)
(* selectors) are sequences of one-character strings, so that trim,        *)
(* toLowerCase and the alias and group lookups are computed, not assumed.  *)
(***************************************************************************)
EXTENDS Integers, Sequences, FiniteSets, TLC

(***************************************************************************)
(* Bounds of the model.                                                    *)
(***************************************************************************)
\* longest allow / deny list of a policy the environment loads
MaxListLen == 1
\* number of enqueue calls that reach the buffer in one run (clock readings)
MaxEvents == 3
\* largest maxAuditBufferSize / auditBatchSize a run is configured with
MaxCap == 2
\* most lines of a buffer file found at construction
MaxDiskLines == 2
\* number of audit POST requests issued in one run
MaxRequests == 3
\* largest failureThreshold a ConnectionStateManager is constructed with
MaxThreshold == 3
\* most consecutive heartbeat failures in one run
MaxFailures == 5
\* most heartbeat requests in flight at once
MaxBeats == 2
\* the clock runs up to MaxClock refresh buffers
MaxClock == 3
\* where the audit POSTs come to return 2xx: the requests after the first
\* MaxFailed
MaxFailed == 1

Range(s) == {s[i] : i \in 1..Len(s)}

\* JavaScript's undefined, for optional strings
Undefined == "<undefined>"

(***************************************************************************)
(* policy/tool-enforcer.ts : names                                         *)
(***************************************************************************)
WhiteSpace == {" ", "\t", "\n"}

\* the letters toLowerCase changes, with their lowercase forms
LowerOf ==
    [c \in {"A","B","C","D","E","F","G","H","I","J","K","L","M",
            "N","O","P","Q","R","S","T","U","V","W","X","Y","Z"} |->
        CASE c = "A" -> "a" [] c = "B" -> "b" [] c = "C" -> "c" [] c = "D" -> "d"
          [] c = "E" -> "e" [] c = "F" -> "f" [] c = "G" -> "g" [] c = "H" -> "h"
          [] c = "I" -> "i" [] c = "J" -> "j" [] c = "K" -> "k" [] c = "L" -> "l"
          [] c = "M" -> "m" [] c = "N" -> "n" [] c = "O" -> "o" [] c = "P" -> "p"
          [] c = "Q" -> "q" [] c = "R" -> "r" [] c = "S" -> "s" [] c = "T" -> "t"
          [] c = "U" -> "u" [] c = "V" -> "v" [] c = "W" -> "w" [] c = "X" -> "x"
          [] c = "Y" -> "y" [] c = "Z" -> "z"]

RECURSIVE trimStart(_)
trimStart(s) ==
    IF s = <<>> THEN s
    ELSE IF Head(s) \in WhiteSpace THEN trimStart(Tail(s)) ELSE s

RECURSIVE trimEnd(_)
trimEnd(s) ==
    IF s = <<>> THEN s
    ELSE IF s[Len(s)] \in WhiteSpace THEN trimEnd(SubSeq(s, 1, Len(s) - 1)) ELSE s

\* String.prototype.trim
trim(s) == trimEnd(trimStart(s))

toLowerCaseChar(c) == IF c \in DOMAIN LowerOf THEN LowerOf[c] ELSE c

\* String.prototype.toLowerCase
toLowerCase(s) == [i \in 1..Len(s) |-> toLowerCaseChar(s[i])]

TOOL_NAME_ALIASES ==
    (<<"b","a","s","h">> :> <<"e","x","e","c">>) @@
    (<<"a","p","p","l","y","-","p","a","t","c","h">> :>
        <<"a","p","p","l","y","_","p","a","t","c","h">>)

\* a mutant: the alias table is not applied
normalizeToolName_noAlias(name) == toLowerCase(trim(name))

normalizeToolName(name) ==
    LET normalized == toLowerCase(trim(name))
    IN  IF normalized \in DOMAIN TOOL_NAME_ALIASES
        THEN TOOL_NAME_ALIASES[normalized] ELSE normalized

TOOL_GROUPS ==
    (<<"g","r","o","u","p",":","m","e","m","o","r","y">> :>
        <<<<"m","e","m","o","r","y","_","s","e","a","r","c","h">>,
          <<"m","e","m","o","r","y","_","g","e","t">>>>) @@
    (<<"g","r","o","u","p",":","w","e","b">> :>
        <<<<"w","e","b","_","s","e","a","r","c","h">>,
          <<"w","e","b","_","f","e","t","c","h">>>>) @@
    (<<"g","r","o","u","p",":","f","s">> :>
        <<<<"r","e","a","d">>,
          <<"w","r","i","t","e">>,
          <<"e","d","i","t">>,
          <<"a","p","p","l","y","_","p","a","t","c","h">>>>) @@
    (<<"g","r","o","u","p",":","r","u","n","t","i","m","e">> :>
        <<<<"e","x","e","c">>,
          <<"p","r","o","c","e","s","s">>>>) @@
    (<<"g","r","o","u","p",":","s","e","s","s","i","o","n","s">> :>
        <<<<"s","e","s","s","i","o","n","s","_","l","i","s","t">>,
          <<"s","e","s","s","i","o","n","s","_","h","i","s","t","o","r","y">>,
          <<"s","e","s","s","i","o","n","s","_","s","e","n","d">>,
          <<"s","e","s","s","i","o","n","s","_","s","p","a","w","n">>,
          <<"s","u","b","a","g","e","n","t","s">>,
          <<"s","e","s","s","i","o","n","_","s","t","a","t","u","s">>>>) @@
    (<<"g","r","o","u","p",":","u","i">> :>
        <<<<"b","r","o","w","s","e","r">>,
          <<"c","a","n","v","a","s">>>>) @@
    (<<"g","r","o","u","p",":","a","u","t","o","m","a","t","i","o","n">> :>
        <<<<"c","r","o","n">>,
          <<"g","a","t","e","w","a","y">>>>) @@
    (<<"g","r","o","u","p",":","m","e","s","s","a","g","i","n","g">> :>
        <<<<"m","e","s","s","a","g","e">>>>) @@
    (<<"g","r","o","u","p",":","n","o","d","e","s">> :>
        <<<<"n","o","d","e","s">>>>)

\* what one entry of a list adds to the expansion (the loop body)
expandEntry(entry) ==
    LET normalized == normalizeToolName(entry)
    IN  IF normalized \in DOMAIN TOOL_GROUPS
        THEN Range(TOOL_GROUPS[normalized])
        ELSE {normalized}

expandGroups(list) == UNION {expandEntry(list[i]) : i \in 1..Len(list)}

(***************************************************************************)
(* The state of the program.                                               *)
(***************************************************************************)
VARIABLES
    state,      \* the shared ToolEnforcerState
    lastCall,   \* the last before_tool_call hook invocation and what it did
    logger,     \* the fields of the AuditLogger instance
    file,       \* BUFFER_FILE, the persisted audit buffer
    pending,    \* audit POST requests awaiting their response, with their batch
    requests,   \* every audit POST request issued so far, in the order issued, with
                \* the clock at its issue and whether no other was in flight then
    now,        \* the clock: the reading Date.now() returns next
    stopCall,   \* the position of the host's stop() call
    boot,       \* the last restart of the process: what it loaded, after which request
    conn,       \* the fields of the ConnectionStateManager instance
    lastConn,   \* the last call on the ConnectionStateManager and what it did
    killSwitchManager,  \* the fields of the KillSwitchManager instance
    beats,      \* heartbeat requests awaiting their response, in the order issued:
                \* for each, whether a 2xx of a later request has been processed
    lastBeat,   \* the last heartbeat response processed
    tokenRefresh,   \* the fields of the TokenRefreshManager and its position
    sessionFile,    \* the session file saveSession writes
    refreshLog,     \* the refresh calls and effects of the current refresh opportunity
    time        \* the wall clock the TokenRefreshManager reads

enforcerVars == <<state, lastCall>>
auditVars == <<logger, file, pending, requests, now>>
lifeVars == <<stopCall, boot>>
connVars == <<conn, lastConn>>
heartbeatVars == <<killSwitchManager, beats, lastBeat>>
sessionVars == <<tokenRefresh, sessionFile, refreshLog, time>>
backgroundVars == <<heartbeatVars, sessionVars>>
vars == <<state, lastCall, logger, file, pending, requests, now,
          stopCall, boot, conn, lastConn, killSwitchManager, beats, lastBeat,
          tokenRefresh, sessionFile, refreshLog, time>>

(***************************************************************************)
(* audit/audit-logger.ts                                                   *)
(***************************************************************************)
\* the metadata of an audit event: undefined, or an object whose keys are the
\* enforcer's reason or the connection manager's transition fields; a key the
\* object lacks reads "" (-1 for the number)
MetaUndefined ==
    [defined |-> FALSE, reason |-> "", transitionType |-> "",
     from |-> "", to |-> "", consecutiveFailures |-> -1]

Meta(reason) == [MetaUndefined EXCEPT !.defined = TRUE, !.reason = reason]

\* an event field of type string that is undefined, for a tool name
UndefinedName == <<Undefined>>

\* BUFFER_WARNING_THRESHOLD = 0.8, as the fraction WarnNum / WarnDen
WarnNum == 8

WarnDen == 10

SessionUserId == "user-1"

SessionOrgId == "org-123"

\* a mutant: the metadata is stripped at every audit level
NewEvent_stripMetadata(lg, params, timestamp) ==
    [userId |-> SessionUserId,
     orgId |-> SessionOrgId,
     agentId |-> params.agentId,
     sessionKey |-> params.sessionKey,
     eventType |-> params.eventType,
     toolName |-> params.toolName,
     timestamp |-> timestamp,
     outcome |-> params.outcome,
     metadata |-> MetaUndefined]

\* a mutant: the metadata is kept at every audit level
NewEvent_keepMetadata(lg, params, timestamp) ==
    [userId |-> SessionUserId,
     orgId |-> SessionOrgId,
     agentId |-> params.agentId,
     sessionKey |-> params.sessionKey,
     eventType |-> params.eventType,
     toolName |-> params.toolName,
     timestamp |-> timestamp,
     outcome |-> params.outcome,
     metadata |-> params.metadata]

\* the AuditEvent enqueue builds from its parameters
NewEvent(lg, params, timestamp) ==
    [userId |-> SessionUserId,
     orgId |-> SessionOrgId,
     agentId |-> params.agentId,
     sessionKey |-> params.sessionKey,
     eventType |-> params.eventType,
     toolName |-> params.toolName,
     timestamp |-> timestamp,
     outcome |-> params.outcome,
     metadata |-> IF lg.auditLevel = "full" THEN params.metadata ELSE MetaUndefined]

\* the keys JSON.stringify writes for a metadata object: those with a value
MetaKeys(m) ==
    {k \in {"reason", "transitionType", "from", "to"} : m[k] # ""}
        \cup (IF m.consecutiveFailures # -1 THEN {"consecutiveFailures"} ELSE {})

\* the keys JSON.stringify writes for an event: undefined properties are left out
EventKeys(e) ==
    {"userId", "orgId", "eventType", "timestamp", "outcome"}
        \cup (IF e.agentId # Undefined THEN {"agentId"} ELSE {})
        \cup (IF e.sessionKey # Undefined THEN {"sessionKey"} ELSE {})
        \cup (IF e.toolName # UndefinedName THEN {"toolName"} ELSE {})
        \cup (IF e.metadata.defined THEN {"metadata"} ELSE {})

\* a line of the buffer file: JSON.stringify of an event (the object of the
\* keys that have a value), or text JSON.parse rejects
JSON_stringify(e) ==
    [json |-> TRUE,
     value |-> [k \in EventKeys(e) |->
                   IF k = "metadata"
                   THEN [m \in MetaKeys(e.metadata) |-> e.metadata[m]]
                   ELSE e[k]]]

\* reading property k of a parsed object: its value, or undefined
Property(object, k, undefined) == IF k \in DOMAIN object THEN object[k] ELSE undefined

\* JSON.parse(line) as AuditEvent
JSON_parse(line) ==
    LET o == line.value
    IN  [userId |-> Property(o, "userId", Undefined),
         orgId |-> Property(o, "orgId", Undefined),
         agentId |-> Property(o, "agentId", Undefined),
         sessionKey |-> Property(o, "sessionKey", Undefined),
         eventType |-> Property(o, "eventType", Undefined),
         toolName |-> Property(o, "toolName", UndefinedName),
         timestamp |-> Property(o, "timestamp", 0),
         outcome |-> Property(o, "outcome", Undefined),
         metadata |->
            IF "metadata" \in DOMAIN o
            THEN [defined |-> TRUE,
                  reason |-> Property(o.metadata, "reason", ""),
                  transitionType |-> Property(o.metadata, "transitionType", ""),
                  from |-> Property(o.metadata, "from", ""),
                  to |-> Property(o.metadata, "to", ""),
                  consecutiveFailures |-> Property(o.metadata, "consecutiveFailures", -1)]
            ELSE MetaUndefined]

\* buffer.splice(0, dropped): the array without its first `dropped` elements
DropOldest(buf, dropped) == SubSeq(buf, dropped + 1, Len(buf))

\* a mutant: the limit is not enforced
enforceBufferLimit_none(buf, maxBufferSize) == buf

enforceBufferLimit(buf, maxBufferSize) ==
    IF Len(buf) > maxBufferSize
    THEN DropOldest(buf, Len(buf) - maxBufferSize)
    ELSE buf

\* writeFileSync(BUFFER_FILE, ...): the whole file is replaced
persistBuffer(events) ==
    [exists |-> TRUE, lines |-> [i \in 1..Len(events) |-> JSON_stringify(events[i])]]

\* unlinkSync(BUFFER_FILE)
clearPersistedBuffer == [exists |-> FALSE, lines |-> <<>>]

RECURSIVE ParsedLines(_)
ParsedLines(lines) ==
    IF lines = <<>> THEN <<>>
    ELSE IF Head(lines).json
         THEN <<JSON_parse(Head(lines))>> \o ParsedLines(Tail(lines))
         ELSE ParsedLines(Tail(lines))

\* a mutant: the limit keeps the oldest lines of the file
loadPersistedBuffer_keepOldest(f, maxBufferSize) ==
    IF f.exists /\ Len(ParsedLines(f.lines)) > maxBufferSize
    THEN SubSeq(ParsedLines(f.lines), 1, maxBufferSize)
    ELSE IF f.exists THEN ParsedLines(f.lines) ELSE <<>>

\* the buffer after construction
loadPersistedBuffer(f, maxBufferSize) ==
    IF f.exists
    THEN enforceBufferLimit(ParsedLines(f.lines), maxBufferSize)
    ELSE <<>>

\* new AuditLogger({config, session, auditLevel})
NewAuditLogger(config, auditLevel, f) ==
    [buffer |-> loadPersistedBuffer(f, config.maxAuditBufferSize),
     flushTimer |-> FALSE,
     batchSize |-> config.auditBatchSize,
     maxBufferSize |-> config.maxAuditBufferSize,
     controlPlaneUrl |-> config.controlPlaneUrl,
     auditLevel |-> auditLevel,
     hasWarnedCapacity |-> FALSE]

\* the logger, its file and the network, as one value the operations transform
World == [logger |-> logger, file |-> file, pending |-> pending,
          requests |-> requests, now |-> now]

SetWorld(w) ==
    /\ logger' = w.logger
    /\ file' = w.file
    /\ pending' = w.pending
    /\ requests' = w.requests
    /\ now' = w.now

\* a mutant: the batch is sent but stays in the buffer
flush_keepBuffer(w) ==
    IF Len(w.logger.buffer) = 0 THEN w
    ELSE LET batch == w.logger.buffer
         IN  IF w.logger.controlPlaneUrl = ""
             THEN [w EXCEPT !.file = persistBuffer(batch)]
             ELSE [w EXCEPT !.pending = @ \cup {[id |-> Len(w.requests) + 1, batch |-> batch]},
                            !.requests = Append(@, [batch |-> batch, response |-> "pending",
                                                    issued |-> w.now,
                                                    alone |-> w.pending = {}])]

\* flush() up to its first await: detach the buffer, then persist it or POST it
flush(w) ==
    IF Len(w.logger.buffer) = 0 THEN w
    ELSE LET batch == w.logger.buffer
             lg == [w.logger EXCEPT !.buffer = <<>>]
         IN  IF w.logger.controlPlaneUrl = ""
             THEN [w EXCEPT !.logger = lg, !.file = persistBuffer(batch)]
             ELSE [w EXCEPT !.logger = lg,
                            !.pending = @ \cup {[id |-> Len(w.requests) + 1, batch |-> batch]},
                            !.requests = Append(@, [batch |-> batch, response |-> "pending",
                                                    issued |-> w.now,
                                                    alone |-> w.pending = {}])]

\* the capacity warning flag after a push (lines 153-163)
WarnedAfter(lg, len) ==
    IF lg.maxBufferSize # 0 /\ WarnDen * len > WarnNum * lg.maxBufferSize
       /\ ~lg.hasWarnedCapacity
    THEN TRUE
    ELSE IF lg.maxBufferSize # 0 /\ WarnDen * len <= WarnNum * lg.maxBufferSize
         THEN FALSE
         ELSE lg.hasWarnedCapacity

enqueue(w, params) ==
    IF w.logger.auditLevel = "off" THEN w
    ELSE LET event == NewEvent(w.logger, params, w.now)
             buf == enforceBufferLimit(Append(w.logger.buffer, event), w.logger.maxBufferSize)
             lg == [w.logger EXCEPT !.buffer = buf,
                                    !.hasWarnedCapacity = WarnedAfter(w.logger, Len(buf))]
             w1 == [w EXCEPT !.logger = lg, !.now = @ + 1]
         IN  IF Len(buf) >= lg.batchSize THEN flush(w1) ELSE w1

\* a mutant: a failed batch is not put back
flushResponse_drop(w, req, response) ==
    LET w1 == [w EXCEPT !.pending = @ \ {req},
                        !.requests[req.id].response =
                            IF response = "ok" THEN "ok" ELSE "failed"]
    IN  IF response = "ok"
        THEN [w1 EXCEPT !.logger.hasWarnedCapacity = FALSE,
                        !.file = clearPersistedBuffer]
        ELSE [w1 EXCEPT !.file = persistBuffer(w.logger.buffer)]

\* a mutant: a failed batch is put back behind the newer events
flushResponse_append(w, req, response) ==
    LET w1 == [w EXCEPT !.pending = @ \ {req},
                        !.requests[req.id].response =
                            IF response = "ok" THEN "ok" ELSE "failed"]
    IN  IF response = "ok"
        THEN [w1 EXCEPT !.logger.hasWarnedCapacity = FALSE,
                        !.file = clearPersistedBuffer]
        ELSE LET buf == enforceBufferLimit(w.logger.buffer \o req.batch,
                                           w.logger.maxBufferSize)
             IN  [w1 EXCEPT !.logger.buffer = buf, !.file = persistBuffer(buf)]

\* flush() after its await: the response of request `req` arrives
flushResponse(w, req, response) ==
    LET w1 == [w EXCEPT !.pending = @ \ {req},
                        !.requests[req.id].response =
                            IF response = "ok" THEN "ok" ELSE "failed"]
    IN  IF response = "ok"
        THEN [w1 EXCEPT !.logger.hasWarnedCapacity = FALSE,
                        !.file = clearPersistedBuffer]
        ELSE LET buf == enforceBufferLimit(req.batch \o w.logger.buffer,
                                           w.logger.maxBufferSize)
             IN  [w1 EXCEPT !.logger.buffer = buf, !.file = persistBuffer(buf)]

updateAuditLevel(w, level) == [w EXCEPT !.logger.auditLevel = level]

RECURSIVE enqueueAll(_, _)
enqueueAll(w, calls) ==
    IF calls = <<>> THEN w ELSE enqueueAll(enqueue(w, Head(calls)), Tail(calls))

(***************************************************************************)
(* policy/tool-enforcer.ts : the hook                                      *)
(***************************************************************************)
\* the hook's context argument
Ctx == [agentId |-> "agent-1", sessionKey |-> "session-1"]

NoBlockReason == [text |-> "", tool |-> <<>>]

\* the hook returns undefined: the call goes ahead
Allow == [kind |-> "allow", blockReason |-> NoBlockReason]

\* the hook returns {block: true, blockReason}
Block(text, tool) == [kind |-> "block", blockReason |-> [text |-> text, tool |-> tool]]

\* the hook throws a TypeError before it returns
Throw == [kind |-> "throw", blockReason |-> NoBlockReason]

\* the parameters of one auditLogger.enqueue call of the hook
Attempt(toolName, outcome, ctx, metadata) ==
    [eventType |-> "tool_call_attempt",
     toolName |-> toolName,
     outcome |-> outcome,
     agentId |-> ctx.agentId,
     sessionKey |-> ctx.sessionKey,
     metadata |-> metadata]

\* what a call did: its result and the enqueue calls it made, in order
Did(result, enq) == [result |-> result, enq |-> enq]

\* policy: OrgPolicy | null; kind "no_tools" is an object without a tools field
NullPolicy == [kind |-> "null", deny |-> <<>>, allow |-> <<>>]

OrgPolicy(deny, allow) == [kind |-> "policy", deny |-> deny, allow |-> allow]

NoToolsPolicy == [kind |-> "no_tools", deny |-> <<>>, allow |-> <<>>]

\* a mutant: the allow list is consulted before the deny list
enforcePolicy_allowFirst(policy, toolName, event, ctx, modeReason) ==
    IF policy.kind = "null"
    THEN Did(Allow, <<Attempt(toolName, "allowed", ctx,
                 Meta(IF modeReason # Undefined THEN modeReason ELSE "no_policy"))>>)
    ELSE IF policy.kind = "no_tools" THEN Did(Throw, <<>>)
    ELSE IF Len(policy.allow) > 0 /\ toolName \in expandGroups(policy.allow)
    THEN Did(Allow, <<Attempt(toolName, "allowed", ctx,
                 IF modeReason # Undefined THEN Meta(modeReason) ELSE MetaUndefined)>>)
    ELSE IF Len(policy.deny) > 0 /\ toolName \in expandGroups(policy.deny)
    THEN Did(Block("is blocked by organization policy", event.toolName),
             <<Attempt(toolName, "blocked", ctx,
                 Meta(IF modeReason # Undefined
                      THEN "deny_list (" \o modeReason \o ")" ELSE "deny_list"))>>)
    ELSE IF Len(policy.allow) > 0
    THEN Did(Block("is not in the organization's allowed tools list", event.toolName),
             <<Attempt(toolName, "blocked", ctx,
                 Meta(IF modeReason # Undefined
                      THEN "not_in_allowlist (" \o modeReason \o ")"
                      ELSE "not_in_allowlist"))>>)
    ELSE Did(Allow, <<Attempt(toolName, "allowed", ctx,
                 IF modeReason # Undefined THEN Meta(modeReason) ELSE MetaUndefined)>>)

\* a mutant: the deny-list branch returns without its audit event
enforcePolicy_silentDeny(policy, toolName, event, ctx, modeReason) ==
    IF policy.kind = "null"
    THEN Did(Allow, <<Attempt(toolName, "allowed", ctx,
                 Meta(IF modeReason # Undefined THEN modeReason ELSE "no_policy"))>>)
    ELSE IF policy.kind = "no_tools" THEN Did(Throw, <<>>)
    ELSE IF Len(policy.deny) > 0 /\ toolName \in expandGroups(policy.deny)
    THEN Did(Block("is blocked by organization policy", event.toolName), <<>>)
    ELSE IF Len(policy.allow) > 0 /\ toolName \notin expandGroups(policy.allow)
    THEN Did(Block("is not in the organization's allowed tools list", event.toolName),
             <<Attempt(toolName, "blocked", ctx,
                 Meta(IF modeReason # Undefined
                      THEN "not_in_allowlist (" \o modeReason \o ")"
                      ELSE "not_in_allowlist"))>>)
    ELSE Did(Allow, <<Attempt(toolName, "allowed", ctx,
                 IF modeReason # Undefined THEN Meta(modeReason) ELSE MetaUndefined)>>)

enforcePolicy(policy, toolName, event, ctx, modeReason) ==
    IF policy.kind = "null"
    THEN \* no policy loaded: allow by default
         Did(Allow, <<Attempt(toolName, "allowed", ctx,
                 Meta(IF modeReason # Undefined THEN modeReason ELSE "no_policy"))>>)
    ELSE IF policy.kind = "no_tools"
    THEN \* policy.tools is undefined: reading policy.tools.deny throws
         Did(Throw, <<>>)
    ELSE IF Len(policy.deny) > 0 /\ toolName \in expandGroups(policy.deny)
    THEN Did(Block("is blocked by organization policy", event.toolName),
             <<Attempt(toolName, "blocked", ctx,
                 Meta(IF modeReason # Undefined
                      THEN "deny_list (" \o modeReason \o ")" ELSE "deny_list"))>>)
    ELSE IF Len(policy.allow) > 0 /\ toolName \notin expandGroups(policy.allow)
    THEN Did(Block("is not in the organization's allowed tools list", event.toolName),
             <<Attempt(toolName, "blocked", ctx,
                 Meta(IF modeReason # Undefined
                      THEN "not_in_allowlist (" \o modeReason \o ")"
                      ELSE "not_in_allowlist"))>>)
    ELSE Did(Allow, <<Attempt(toolName, "allowed", ctx,
                 IF modeReason # Undefined THEN Meta(modeReason) ELSE MetaUndefined)>>)

DefaultKillSwitchReason == "ClawForge: All tool calls blocked by organization kill switch"

\* a mutant: the kill switch is checked first, before the offline override
createToolEnforcerHook_killSwitchFirst(st, event, ctx) ==
    LET toolName == normalizeToolName(event.toolName)
    IN  IF st.killSwitchActive
        THEN Did(Block(IF st.killSwitchMessage # Undefined
                       THEN st.killSwitchMessage ELSE DefaultKillSwitchReason, <<>>),
                 <<Attempt(toolName, "blocked", ctx, Meta("kill_switch"))>>)
        ELSE IF st.offlineOverride = "allow"
        THEN Did(Allow, <<Attempt(toolName, "allowed", ctx, Meta("offline_allow_mode"))>>)
        ELSE IF st.offlineOverride = "cached"
        THEN enforcePolicy(st.policy, toolName, event, ctx, "offline_cached_mode")
        ELSE enforcePolicy(st.policy, toolName, event, ctx, Undefined)

\* a mutant: the kill switch check is missing
createToolEnforcerHook_noKillSwitch(st, event, ctx) ==
    LET toolName == normalizeToolName(event.toolName)
    IN  IF st.offlineOverride = "allow"
        THEN Did(Allow, <<Attempt(toolName, "allowed", ctx, Meta("offline_allow_mode"))>>)
        ELSE IF st.offlineOverride = "cached"
        THEN enforcePolicy(st.policy, toolName, event, ctx, "offline_cached_mode")
        ELSE enforcePolicy(st.policy, toolName, event, ctx, Undefined)

\* the handler createToolEnforcerHook returns, applied to one call
createToolEnforcerHook(st, event, ctx) ==
    LET toolName == normalizeToolName(event.toolName)
    IN  IF st.offlineOverride = "allow"
        THEN Did(Allow, <<Attempt(toolName, "allowed", ctx, Meta("offline_allow_mode"))>>)
        ELSE IF st.offlineOverride = "cached"
        THEN enforcePolicy(st.policy, toolName, event, ctx, "offline_cached_mode")
        ELSE IF st.killSwitchActive
        THEN Did(Block(IF st.killSwitchMessage # Undefined
                       THEN st.killSwitchMessage ELSE DefaultKillSwitchReason, <<>>),
                 <<Attempt(toolName, "blocked", ctx, Meta("kill_switch"))>>)
        ELSE enforcePolicy(st.policy, toolName, event, ctx, Undefined)

(***************************************************************************)
(* connection/connection-state.ts                                          *)
(***************************************************************************)
\* type ConnectionState
ConnectionStates == {"connected", "degraded", "offline", "unauthenticated"}

\* new ConnectionStateManager({failureThreshold, auditLogger}); a
\* lastSuccessfulHeartbeat of 0 is null, auditLogger tells whether one was given
NewConnectionStateManager(failureThreshold, auditLogger) ==
    [state |-> "connected",
     lastSuccessfulHeartbeat |-> 0,
     consecutiveFailures |-> 0,
     failureThreshold |-> failureThreshold,
     auditLogger |-> auditLogger]

\* the metadata of a connection state change
TransitionMeta(from, to, consecutiveFailures) ==
    [defined |-> TRUE, reason |-> "",
     transitionType |-> "connection_state_change",
     from |-> from, to |-> to, consecutiveFailures |-> consecutiveFailures]

\* the enqueue calls of emitTransitionAudit(from, to)
emitTransitionAudit(c, from, to) ==
    IF c.auditLogger
    THEN <<[eventType |-> "kill_switch_activated",
            toolName |-> UndefinedName,
            outcome |-> IF to = "connected" THEN "success" ELSE "error",
            agentId |-> Undefined,
            sessionKey |-> Undefined,
            metadata |-> TransitionMeta(from, to, c.consecutiveFailures)]>>
    ELSE <<>>

\* what a call did: the manager afterwards and its auditLogger.enqueue calls
ConnDid(c, enq) == [conn |-> c, enq |-> enq]

\* a mutant: every successful heartbeat is reported as a transition
recordSuccess_alwaysEmit(c, date) ==
    LET c1 == [c EXCEPT !.consecutiveFailures = 0,
                        !.lastSuccessfulHeartbeat = date,
                        !.state = "connected"]
    IN  ConnDid(c1, emitTransitionAudit(c1, c.state, "connected"))

recordSuccess(c, date) ==
    LET previousState == c.state
        c1 == [c EXCEPT !.consecutiveFailures = 0,
                        !.lastSuccessfulHeartbeat = date,
                        !.state = "connected"]
    IN  ConnDid(c1, IF previousState # "connected"
                    THEN emitTransitionAudit(c1, previousState, "connected")
                    ELSE <<>>)

\* a mutant: the threshold is compared with the count before the increment
recordFailure_compareFirst(c) ==
    LET previousState == c.state
        c1 == [c EXCEPT !.consecutiveFailures = @ + 1,
                        !.state = IF c.consecutiveFailures + 2 >= c.failureThreshold
                                  THEN "offline" ELSE "degraded"]
    IN  ConnDid(c1, IF previousState # c1.state
                    THEN emitTransitionAudit(c1, previousState, c1.state)
                    ELSE <<>>)

\* a mutant: offline only above the threshold
recordFailure_lateOffline(c) ==
    LET previousState == c.state
        c1 == [c EXCEPT !.consecutiveFailures = @ + 1,
                        !.state = IF c.consecutiveFailures + 1 > c.failureThreshold
                                  THEN "offline" ELSE "degraded"]
    IN  ConnDid(c1, IF previousState # c1.state
                    THEN emitTransitionAudit(c1, previousState, c1.state)
                    ELSE <<>>)

\* a mutant: a failure while unauthenticated leaves the state alone
recordFailure_keepUnauthenticated(c) ==
    LET previousState == c.state
        c1 == [c EXCEPT !.consecutiveFailures = @ + 1,
                        !.state = IF previousState = "unauthenticated"
                                  THEN "unauthenticated"
                                  ELSE IF c.consecutiveFailures + 1 >= c.failureThreshold
                                       THEN "offline" ELSE "degraded"]
    IN  ConnDid(c1, IF previousState # c1.state
                    THEN emitTransitionAudit(c1, previousState, c1.state)
                    ELSE <<>>)

recordFailure(c) ==
    LET previousState == c.state
        c1 == [c EXCEPT !.consecutiveFailures = @ + 1,
                        !.state = IF c.consecutiveFailures + 1 >= c.failureThreshold
                                  THEN "offline" ELSE "degraded"]
    IN  ConnDid(c1, IF previousState # c1.state
                    THEN emitTransitionAudit(c1, previousState, c1.state)
                    ELSE <<>>)

setUnauthenticated(c) ==
    LET previousState == c.state
    IN  IF previousState # "unauthenticated"
        THEN LET c1 == [c EXCEPT !.state = "unauthenticated"]
             IN  ConnDid(c1, emitTransitionAudit(c1, previousState, "unauthenticated"))
        ELSE ConnDid(c, <<>>)

(***************************************************************************)
(* heartbeat/kill-switch.ts                                                *)
(*                                                                         *)
(* A heartbeat response is a record: status 0 stands for a fetch that      *)
(* rejects, json says whether response.json() resolves, and the other      *)
(* fields are the HeartbeatResponse body.  The manager is constructed with *)
(* a ConnectionStateManager, as the plugin constructs it.                  *)
(***************************************************************************)
OfflineBlockMessage ==
    "ClawForge: Cannot reach control plane. All tools blocked (offline mode: block)."

\* onPolicyRefreshNeeded is what the callback given does when called: it
\* "returns" or it "throws"
NewKillSwitchManager(config, onPolicyRefreshNeeded) ==
    [timer |-> FALSE,
     onPolicyRefreshNeeded |-> onPolicyRefreshNeeded,
     controlPlaneUrl |-> config.controlPlaneUrl,
     failureThreshold |-> config.heartbeatFailureThreshold,
     offlineMode |-> IF config.offlineMode = Undefined THEN "block" ELSE config.offlineMode]

\* applyOfflineBehavior without the block case
applyOfflineBehavior_noBlock(m, st) ==
    CASE m.offlineMode = "allow" -> [st EXCEPT !.offlineOverride = "allow"]
      [] m.offlineMode = "cached" -> [st EXCEPT !.offlineOverride = "cached"]
      [] OTHER -> st

applyOfflineBehavior(m, st) ==
    CASE m.offlineMode = "block" ->
            [st EXCEPT !.killSwitchActive = TRUE,
                       !.killSwitchMessage = OfflineBlockMessage,
                       !.offlineOverride = Undefined]
      [] m.offlineMode = "allow" -> [st EXCEPT !.offlineOverride = "allow"]
      [] m.offlineMode = "cached" -> [st EXCEPT !.offlineOverride = "cached"]
      [] OTHER -> st

\* what a heartbeat did: the manager and the enforcer state it leaves, the
\* enqueue calls it made, whether it called onPolicyRefreshNeeded, and the
\* outcomes it reported to the ConnectionStateManager
BeatDid(c, st, enq, refresh, reported) ==
    [conn |-> c, state |-> st, enq |-> enq, refresh |-> refresh, reported |-> reported]

\* a mutant: the offline behaviour waits for one failure more
handleFailure_late(m, c, st) ==
    LET did == recordFailure(c)
        consecutiveFailures == did.conn.consecutiveFailures
    IN  BeatDid(did.conn,
                IF consecutiveFailures > m.failureThreshold
                THEN applyOfflineBehavior(m, st) ELSE st,
                did.enq, FALSE, <<"recordFailure">>)

handleFailure(m, c, st) ==
    LET did == recordFailure(c)
        consecutiveFailures == did.conn.consecutiveFailures
    IN  BeatDid(did.conn,
                IF consecutiveFailures >= m.failureThreshold
                THEN applyOfflineBehavior(m, st) ELSE st,
                did.enq, FALSE, <<"recordFailure">>)

\* the call of onPolicyRefreshNeeded at the end of the try block: when the
\* callback throws, the catch runs handleFailure
policyRefreshNeeded(m, did) ==
    IF did.refresh /\ m.onPolicyRefreshNeeded = "throws"
    THEN LET failed == handleFailure(m, did.conn, did.state)
         IN  BeatDid(failed.conn, failed.state, did.enq \o failed.enq, TRUE,
                     did.reported \o failed.reported)
    ELSE did

\* response.ok
ok(response) == response.status \in 200..299

\* heartbeat() that leaves the offline override as it is
heartbeat_keepOverride(m, c, st, response, date) ==
    IF response.status = 0 \/ ~ok(response) \/ ~response.json
    THEN handleFailure(m, c, st)
    ELSE LET did == recordSuccess(c, date)
         IN  policyRefreshNeeded(m, BeatDid(did.conn,
                     IF response.killSwitch
                     THEN [st EXCEPT !.killSwitchActive = TRUE,
                                     !.killSwitchMessage = response.killSwitchMessage]
                     ELSE [st EXCEPT !.killSwitchActive = FALSE,
                                     !.killSwitchMessage = Undefined],
                     did.enq, response.refreshPolicyNow, <<"recordSuccess">>))

\* heartbeat() that leaves the message of a deactivated kill switch
heartbeat_keepMessage(m, c, st, response, date) ==
    IF response.status = 0 \/ ~ok(response) \/ ~response.json
    THEN handleFailure(m, c, st)
    ELSE LET did == recordSuccess(c, date)
             st1 == IF st.offlineOverride # Undefined
                    THEN [st EXCEPT !.offlineOverride = Undefined] ELSE st
         IN  policyRefreshNeeded(m, BeatDid(did.conn,
                     IF response.killSwitch
                     THEN [st1 EXCEPT !.killSwitchActive = TRUE,
                                      !.killSwitchMessage = response.killSwitchMessage]
                     ELSE [st1 EXCEPT !.killSwitchActive = FALSE],
                     did.enq, response.refreshPolicyNow, <<"recordSuccess">>))

\* heartbeat() after its awaits: fetch has settled with `response`
heartbeat(m, c, st, response, date) ==
    IF response.status = 0 \/ ~ok(response) \/ ~response.json
    THEN handleFailure(m, c, st)
    ELSE LET did == recordSuccess(c, date)
             st1 == IF st.offlineOverride # Undefined
                    THEN [st EXCEPT !.offlineOverride = Undefined] ELSE st
         IN  policyRefreshNeeded(m, BeatDid(did.conn,
                     IF response.killSwitch
                     THEN [st1 EXCEPT !.killSwitchActive = TRUE,
                                      !.killSwitchMessage = response.killSwitchMessage]
                     ELSE [st1 EXCEPT !.killSwitchActive = FALSE,
                                      !.killSwitchMessage = Undefined],
                     did.enq, response.refreshPolicyNow, <<"recordSuccess">>))

(***************************************************************************)
(* auth/token-refresh-manager.ts                                           *)
(*                                                                         *)
(* A session is its refresh token and its expiresAt; an expiresAt of 0 is  *)
(* an absent one.  Operations act on the record Keeper of the manager, the *)
(* session file and the log of the current refresh opportunity.            *)
(***************************************************************************)
\* 5 * 60_000
REFRESH_BUFFER_MS == 300000
MAX_RETRIES == 3

Session(refreshToken, expiresAt) == [refreshToken |-> refreshToken, expiresAt |-> expiresAt]

NoSession == Session(Undefined, 0)

\* phase: where checkAndRefresh stands (idle, awaiting refreshSessionToken,
\* sleeping before the next attempt); attempt: the loop variable
NewTokenRefreshManager(controlPlaneUrl, session) ==
    [timer |-> FALSE,
     refreshing |-> FALSE,
     controlPlaneUrl |-> controlPlaneUrl,
     session |-> session,
     phase |-> "idle",
     attempt |-> 0]

\* the log of an opportunity that starts with the session `held`: the calls
\* made, the refresh token sent last, how the last attempt ended, what a
\* successful attempt did, the session it replaced, and whether a check
\* returned at the refreshing flag meanwhile
NewRefreshLog(held) ==
    [held |-> held, calls |-> 0, sent |-> Undefined, outcome |-> "none",
     effects |-> <<>>, replaced |-> NoSession, ignored |-> FALSE]

\* nothing logged: no refresh opportunity yet
NoRefreshLog == NewRefreshLog(NoSession)

Effect(op, session) == [op |-> op, session |-> session]

\* saveSession(session): the file is overwritten with the session
saveSession(k, session) ==
    [k EXCEPT !.file = session, !.log.effects = Append(@, Effect("saveSession", session))]

\* this.session = newSession
replaceSession(k, session) ==
    [k EXCEPT !.manager.session = session,
              !.log.replaced = k.manager.session,
              !.log.effects = Append(@, Effect("replace", session))]

\* this.onTokenRefreshed?.(newSession), with the callback the plugin passes
onTokenRefreshed(k, session) ==
    [k EXCEPT !.log.effects = Append(@, Effect("onTokenRefreshed", session))]

\* the loop body up to its await: refreshSessionToken is called with the
\* refresh token of the session held now
callRefresh(k) ==
    [k EXCEPT !.manager.phase = "awaiting",
              !.log.calls = @ + 1,
              !.log.sent = k.manager.session.refreshToken,
              !.log.outcome = "pending"]

\* checkAndRefresh that ignores the refreshing flag
checkAndRefresh_reentrant(k, date) ==
    LET expiresAt == k.manager.session.expiresAt
    IN  IF expiresAt = 0 THEN k
        ELSE IF expiresAt - date > REFRESH_BUFFER_MS THEN k
        ELSE callRefresh([k EXCEPT !.manager.refreshing = TRUE,
                                   !.manager.attempt = 0,
                                   !.log = IF k.manager.refreshing THEN @
                                           ELSE NewRefreshLog(k.manager.session)])

\* checkAndRefresh() up to the first await of refreshWithRetry
checkAndRefresh(k, date) ==
    LET expiresAt == k.manager.session.expiresAt
    IN  IF k.manager.refreshing THEN [k EXCEPT !.log.ignored = TRUE]
        ELSE IF expiresAt = 0 THEN k
        ELSE IF expiresAt - date > REFRESH_BUFFER_MS THEN k
        ELSE callRefresh([k EXCEPT !.manager.refreshing = TRUE,
                                   !.manager.attempt = 0,
                                   !.log = NewRefreshLog(k.manager.session)])

\* refreshWithRetry has returned: the finally of checkAndRefresh
refreshDone(k, outcome) ==
    [k EXCEPT !.manager.refreshing = FALSE,
              !.manager.phase = "idle",
              !.log.outcome = outcome]

\* refreshWithRetry that notifies before it saves and replaces
refreshWithRetry_notifyFirst(k, result) ==
    IF result.ok
    THEN refreshDone(replaceSession(saveSession(onTokenRefreshed(k, result.session),
                                                result.session), result.session),
                     "rotated")
    ELSE IF k.manager.attempt < MAX_RETRIES - 1
    THEN [k EXCEPT !.manager.phase = "sleeping", !.log.outcome = "retry"]
    ELSE refreshDone([k EXCEPT !.manager.attempt = @ + 1], "failed")

\* refreshWithRetry that leaves the refreshing flag set when it gives up
refreshWithRetry_stuck(k, result) ==
    IF result.ok
    THEN refreshDone(onTokenRefreshed(replaceSession(saveSession(k, result.session),
                                                     result.session), result.session),
                     "rotated")
    ELSE IF k.manager.attempt < MAX_RETRIES - 1
    THEN [k EXCEPT !.manager.phase = "sleeping", !.log.outcome = "retry"]
    ELSE [k EXCEPT !.manager.attempt = @ + 1, !.manager.phase = "idle",
                   !.log.outcome = "failed"]

\* refreshWithRetry() from the await of refreshSessionToken on: result is
\* the session it resolved with, or the error it rejected with
refreshWithRetry(k, result) ==
    IF result.ok
    THEN refreshDone(onTokenRefreshed(replaceSession(saveSession(k, result.session),
                                                     result.session), result.session),
                     "rotated")
    ELSE IF k.manager.attempt < MAX_RETRIES - 1
    THEN [k EXCEPT !.manager.phase = "sleeping", !.log.outcome = "retry"]
    ELSE refreshDone([k EXCEPT !.manager.attempt = @ + 1], "failed")

\* the sleep before the next attempt is over: attempt++ and the loop body
retryAfterSleep(k) == callRefresh([k EXCEPT !.manager.attempt = @ + 1])

(***************************************************************************)
(* Inputs.                                                                 *)
(***************************************************************************)
SeqsUpTo(S, n) == UNION {[1..k -> S] : k \in 0..n}

\* entries of a policy's allow and deny lists
Selectors ==
    {<<"e","x","e","c">>,
     <<"B","a","s","h">>,
     <<"r","e","a","d">>,
     <<"g","r","o","u","p",":","f","s">>,
     <<"g","r","o","u","p",":","n","o","p","e">>}

\* tool names the host calls the hook with
ToolNames ==
    {<<"b","a","s","h">>,
     <<" ","B","a","s","h","\t">>,
     <<"E","X","E","C">>,
     <<"r","e","a","d">>,
     <<"w","r","i","t","e">>,
     <<"a","p","p","l","y","-","p","a","t","c","h">>,
     <<"m","e","s","s","a","g","e">>,
     <<"g","r","o","u","p",":","f","s">>,
     <<"g","r","o","u","p",":","n","o","p","e">>}

SelectorLists == SeqsUpTo(Selectors, MaxListLen)

OrgPolicies == {OrgPolicy(d, a) : d \in SelectorLists, a \in SelectorLists}

KillSwitchMessages == {Undefined, "freeze"}

\* the values of type ToolEnforcerState
EnforcerStates(policies) ==
    [policy : policies,
     killSwitchActive : BOOLEAN,
     killSwitchMessage : KillSwitchMessages,
     offlineOverride : {Undefined, "allow", "cached"}]

NoCall == [called |-> FALSE, toolName |-> <<>>, result |-> Allow, enq |-> <<>>]

DefaultConfig ==
    [controlPlaneUrl |-> "https://cp", auditBatchSize |-> 100, maxAuditBufferSize |-> 10000]

NoFile == [exists |-> FALSE, lines |-> <<>>]

(***************************************************************************)
(* The enforcer: the host calls the hook in any ToolEnforcerState.  The    *)
(* hook reads the state and calls auditLogger.enqueue; lastCall records    *)
(* the parameters of those calls.  The logger runs at audit level off      *)
(* here, where enqueue returns at once, so that the buffer (the subject of *)
(* SpecAudit) does not multiply the states of the pure decision.           *)
(***************************************************************************)
\* no call on the ConnectionStateManager yet
NoConnCall(c) == [called |-> FALSE, op |-> "", before |-> c, enq |-> <<>>]

\* a ConnectionStateManager nothing calls
InitConnIdle ==
    /\ conn = NewConnectionStateManager(MaxThreshold, TRUE)
    /\ lastConn = NoConnCall(conn)

\* no heartbeat response processed yet
NoResponse ==
    [status |-> -1, json |-> FALSE, killSwitch |-> FALSE,
     killSwitchMessage |-> Undefined, refreshPolicyNow |-> FALSE]

\* before: the manager and the enforcer state the response found
NoBeat(c, st) ==
    [called |-> FALSE, response |-> NoResponse, refresh |-> FALSE, reported |-> <<>>,
     overtaken |-> FALSE,
     before |-> [conn |-> c, state |-> st]]

\* a KillSwitchManager nothing starts
InitHeartbeatIdle ==
    /\ killSwitchManager =
          NewKillSwitchManager([controlPlaneUrl |-> "", heartbeatFailureThreshold |-> MaxThreshold,
                                offlineMode |-> Undefined], "returns")
    /\ beats = <<>>
    /\ lastBeat = NoBeat(conn, state)

\* a TokenRefreshManager nothing starts
InitSessionIdle ==
    /\ tokenRefresh = NewTokenRefreshManager("", NoSession)
    /\ sessionFile = NoSession
    /\ refreshLog = NoRefreshLog
    /\ time = 0

InitBackgroundIdle == InitHeartbeatIdle /\ InitSessionIdle

\* stop() has not been called
NoStop == [status |-> "none", req |-> 0]

\* the process has not been started again
FirstBoot == [restarted |-> FALSE, loaded |-> <<>>, requests |-> 0]

InitAuditIdle ==
    /\ logger = NewAuditLogger(DefaultConfig, "off", NoFile)
    /\ file = NoFile
    /\ pending = {}
    /\ requests = <<>>
    /\ now = 1
    /\ stopCall = NoStop
    /\ boot = FirstBoot

InitEnforcer ==
    /\ state \in EnforcerStates({NullPolicy} \cup OrgPolicies)
    /\ lastCall = NoCall
    /\ InitAuditIdle
    /\ InitConnIdle
    /\ InitBackgroundIdle

\* the host invokes the before_tool_call hook for a call of `toolName`
Authorize(toolName) ==
    LET did == createToolEnforcerHook(state, [toolName |-> toolName], Ctx)
        w == enqueueAll(World, did.enq)
    IN  /\ w.now <= MaxEvents + 1
        /\ Len(w.requests) <= MaxRequests
        /\ lastCall' = [called |-> TRUE, toolName |-> toolName,
                        result |-> did.result, enq |-> did.enq]
        /\ SetWorld(w)
        /\ UNCHANGED <<state, lifeVars, connVars, backgroundVars>>

NextEnforcer == \E toolName \in ToolNames : Authorize(toolName)

SpecEnforcer == InitEnforcer /\ [][NextEnforcer]_vars

\* the same, when the loaded policy object may lack its tools field
InitMalformed ==
    /\ state \in EnforcerStates({NullPolicy, NoToolsPolicy} \cup OrgPolicies)
    /\ lastCall = NoCall
    /\ InitAuditIdle
    /\ InitConnIdle
    /\ InitBackgroundIdle

SpecMalformed == InitMalformed /\ [][NextEnforcer]_vars

(***************************************************************************)
(* The enforcer with a logger that records: the hook's enqueue reaches the *)
(* buffer at audit level metadata or full.  The clock reads MaxEvents, so  *)
(* one call per run reaches the buffer.                                    *)
(***************************************************************************)
InitEnforcerAudit ==
    /\ state \in EnforcerStates({NullPolicy} \cup OrgPolicies)
    /\ lastCall = NoCall
    /\ \E level \in {"metadata", "full"} :
          logger = NewAuditLogger(DefaultConfig, level, NoFile)
    /\ file = NoFile
    /\ pending = {}
    /\ requests = <<>>
    /\ now = MaxEvents
    /\ stopCall = NoStop
    /\ boot = FirstBoot
    /\ InitConnIdle
    /\ InitBackgroundIdle

SpecEnforcerAudit == InitEnforcerAudit /\ [][NextEnforcer]_vars

(***************************************************************************)
(* The audit logger: enqueues, flushes and their responses interleave.     *)
(***************************************************************************)
\* the parameters the callers of enqueue pass
AuditParams ==
    {Attempt(<<"r","e","a","d">>, "allowed", Ctx, Meta("no_policy"))}

\* an event a previous run of the process left in the buffer file
PastEvent(timestamp) ==
    [userId |-> SessionUserId,
     orgId |-> SessionOrgId,
     agentId |-> Ctx.agentId,
     sessionKey |-> Ctx.sessionKey,
     eventType |-> "tool_call_attempt",
     toolName |-> <<"r","e","a","d">>,
     timestamp |-> timestamp,
     outcome |-> "allowed",
     metadata |-> MetaUndefined]

\* a line of the buffer file that JSON.parse rejects
MalformedLine == [json |-> FALSE, value |-> <<>>]

\* a buffer file of the given line kinds; its events are older than time 1
FileOf(kinds) ==
    [exists |-> TRUE,
     lines |-> [i \in 1..Len(kinds) |->
                   IF kinds[i] = "event"
                   THEN JSON_stringify(PastEvent(i - Len(kinds)))
                   ELSE MalformedLine]]

Files == {NoFile} \cup {FileOf(kinds) : kinds \in SeqsUpTo({"event", "malformed"}, MaxDiskLines)}

Configs ==
    [controlPlaneUrl : {"", "https://cp"},
     auditBatchSize : 1..(MaxCap + 1),
     maxAuditBufferSize : 0..MaxCap]

IdleState ==
    [policy |-> NullPolicy, killSwitchActive |-> FALSE,
     killSwitchMessage |-> Undefined, offlineOverride |-> Undefined]

InitAudit ==
    /\ state = IdleState
    /\ lastCall = NoCall
    /\ file \in Files
    /\ \E config \in Configs : logger = NewAuditLogger(config, "metadata", file)
    /\ pending = {}
    /\ requests = <<>>
    /\ now = 1
    /\ stopCall = NoStop
    /\ boot = FirstBoot
    /\ InitConnIdle
    /\ InitBackgroundIdle

\* the process runs until its stop() call is over: stop() is the host's
\* shutdown hook, and the process exits when it resolves
Running == stopCall.status # "done"

\* a component calls auditLogger.enqueue(params)
Enqueue(params) ==
    LET w == enqueue(World, params)
    IN  /\ Running
        /\ w.now <= MaxEvents + 1
        /\ Len(w.requests) <= MaxRequests
        /\ SetWorld(w)
        /\ UNCHANGED <<enforcerVars, lifeVars, connVars, backgroundVars>>

\* start(): arm the periodic flush timer
Start ==
    /\ Running
    /\ ~logger.flushTimer
    /\ logger' = [logger EXCEPT !.flushTimer = TRUE]
    /\ UNCHANGED <<enforcerVars, file, pending, requests, now, lifeVars, connVars, backgroundVars>>

\* the flush timer fires
TimerFlush ==
    /\ Running
    /\ logger.flushTimer
    /\ LET w == flush(World)
       IN  /\ Len(w.requests) <= MaxRequests
           /\ SetWorld(w)
    /\ UNCHANGED <<enforcerVars, lifeVars, connVars, backgroundVars>>

\* the host calls flush()
Flush ==
    /\ Running
    /\ LET w == flush(World)
       IN  /\ Len(w.requests) <= MaxRequests
           /\ SetWorld(w)
    /\ UNCHANGED <<enforcerVars, lifeVars, connVars, backgroundVars>>

\* stop(): clear the timer, then flush what is buffered and await that flush;
\* the call is over at once when the flush sent no request
Stop ==
    /\ stopCall.status = "none"
    /\ LET w == flush([World EXCEPT !.logger.flushTimer = FALSE])
       IN  /\ Len(w.requests) <= MaxRequests
           /\ SetWorld(w)
           /\ stopCall' = IF Len(w.requests) > Len(requests)
                           THEN [status |-> "awaiting", req |-> Len(w.requests)]
                           ELSE [status |-> "done", req |-> 0]
    /\ UNCHANGED <<enforcerVars, boot, connVars, backgroundVars>>

\* the response of a pending audit POST arrives (or the request errors); the
\* flush that sent it resumes, and with it a stop() that awaits that flush
FlushResponse(req, response) ==
    /\ Running
    /\ req \in pending
    /\ SetWorld(flushResponse(World, req, response))
    /\ stopCall' = IF stopCall.status = "awaiting" /\ stopCall.req = req.id
                    THEN [status |-> "done", req |-> 0]
                    ELSE stopCall
    /\ UNCHANGED <<enforcerVars, boot, connVars, backgroundVars>>

Responses == {"ok", "non2xx", "error"}

NextAudit ==
    \/ \E params \in AuditParams : Enqueue(params)
    \/ Start
    \/ TimerFlush
    \/ Flush
    \/ \E req \in pending, response \in Responses : FlushResponse(req, response)

SpecAudit == InitAudit /\ [][NextAudit]_vars

(***************************************************************************)
(* The audit logger up to shutdown: the host calls stop() once, at any     *)
(* moment, while enqueues, flushes and responses go on until stop() is     *)
(* over and the process exits.                                             *)
(***************************************************************************)
NextStop ==
    \/ NextAudit
    \/ Stop

SpecStop == InitAudit /\ [][NextStop]_vars

(***************************************************************************)
(* Delivery to a configured control plane: enqueues, flushes (by batch     *)
(* size or by the host) and their responses, from no buffer file or from   *)
(* one event a previous run left.                                          *)
(***************************************************************************)
InitRetry ==
    /\ state = IdleState
    /\ lastCall = NoCall
    /\ file \in {NoFile, FileOf(<<"event">>)}
    /\ \E config \in Configs :
          /\ config.controlPlaneUrl # ""
          /\ logger = NewAuditLogger(config, "metadata", file)
    /\ pending = {}
    /\ requests = <<>>
    /\ now = 1
    /\ stopCall = NoStop
    /\ boot = FirstBoot
    /\ InitConnIdle
    /\ InitBackgroundIdle

NextRetry ==
    \/ \E params \in AuditParams : Enqueue(params)
    \/ Flush
    \/ \E req \in pending, response \in Responses : FlushResponse(req, response)

SpecRetry == InitRetry /\ [][NextRetry]_vars

(***************************************************************************)
(* The audit logger of a running plugin whose control plane recovers: the  *)
(* plugin calls start() once the logger is constructed, the interval timer *)
(* keeps firing, every POST settles, and only the first MaxFailed requests *)
(* can fail.  Every request that succeeds acknowledges at least one event, *)
(* so with LiveEvents events the request log never reaches MaxRequests     *)
(* before the last event is acknowledged.                                  *)
(***************************************************************************)
LiveEvents == MaxRequests - MaxFailed

InitLive ==
    /\ state = IdleState
    /\ lastCall = NoCall
    /\ file = NoFile
    /\ \E config \in Configs :
          /\ config.controlPlaneUrl # ""
          /\ logger = NewAuditLogger(config, "metadata", file)
    /\ pending = {}
    /\ requests = <<>>
    /\ now = 1
    /\ stopCall = NoStop
    /\ boot = FirstBoot
    /\ InitConnIdle
    /\ InitBackgroundIdle

\* enqueue, for the first LiveEvents events
LiveEnqueue(params) ==
    /\ now <= LiveEvents
    /\ Enqueue(params)

\* the POST settles; from request MaxFailed + 1 on with a 2xx
LiveResponse(req, response) ==
    /\ response = "ok" \/ req.id <= MaxFailed
    /\ FlushResponse(req, response)

NextLive ==
    \/ \E params \in AuditParams : LiveEnqueue(params)
    \/ Start
    \/ TimerFlush
    \/ \E req \in pending, response \in Responses : LiveResponse(req, response)

\* start() is called, setInterval keeps calling back, fetch settles
FairLive ==
    /\ WF_vars(Start)
    /\ WF_vars(TimerFlush)
    /\ WF_vars(\E req \in pending, response \in Responses : LiveResponse(req, response))

SpecLive == InitLive /\ [][NextLive]_vars /\ FairLive

(***************************************************************************)
(* The audit logger under changes of the audit level: the level a policy   *)
(* refresh sets applies to the enqueues that follow.  Flushes are those    *)
(* the batch size triggers.                                                *)
(***************************************************************************)
AuditLevels == {"full", "metadata", "off"}

\* enqueue calls with and without metadata
LevelParams ==
    {Attempt(<<"r","e","a","d">>, "blocked", Ctx, Meta("deny_list")),
     Attempt(<<"r","e","a","d">>, "allowed", Ctx, MetaUndefined)}

InitLevels ==
    /\ state = IdleState
    /\ lastCall = NoCall
    /\ file = NoFile
    /\ \E config \in Configs, level \in AuditLevels :
          /\ config.controlPlaneUrl # ""
          /\ config.maxAuditBufferSize = MaxCap
          /\ config.auditBatchSize \in {1, MaxCap + 1}
          /\ logger = NewAuditLogger(config, level, file)
    /\ pending = {}
    /\ requests = <<>>
    /\ now = 1
    /\ stopCall = NoStop
    /\ boot = FirstBoot
    /\ InitConnIdle
    /\ InitBackgroundIdle

\* the policy refresh calls auditLogger.updateAuditLevel(level)
UpdateAuditLevel(level) ==
    /\ level # logger.auditLevel
    /\ SetWorld(updateAuditLevel(World, level))
    /\ UNCHANGED <<enforcerVars, lifeVars, connVars, backgroundVars>>

NextLevels ==
    \/ \E params \in LevelParams : Enqueue(params)
    \/ \E level \in AuditLevels : UpdateAuditLevel(level)
    \/ \E req \in pending, response \in Responses : FlushResponse(req, response)

SpecLevels == InitLevels /\ [][NextLevels]_vars

(***************************************************************************)
(* The audit logger across a restart: the process ends, by exit or crash,  *)
(* at any moment of a run, and a new one constructs its AuditLogger on the *)
(* same buffer file.  Requests of the old process no longer resume.        *)
(***************************************************************************)
Restart ==
    /\ ~boot.restarted
    /\ logger' = NewAuditLogger(
                    [controlPlaneUrl |-> logger.controlPlaneUrl,
                     auditBatchSize |-> logger.batchSize,
                     maxAuditBufferSize |-> logger.maxBufferSize],
                    logger.auditLevel, file)
    /\ pending' = {}
    /\ stopCall' = NoStop
    /\ boot' = [restarted |-> TRUE, loaded |-> logger'.buffer, requests |-> Len(requests)]
    /\ UNCHANGED <<enforcerVars, file, requests, now, connVars, backgroundVars>>

NextRestart ==
    \/ \E params \in AuditParams : Enqueue(params)
    \/ Flush
    \/ \E req \in pending, response \in Responses : FlushResponse(req, response)
    \/ Restart

\* the audit level is full, so that events with metadata reach the file, and
\* flushes are the host's: the batch size is out of the buffer's reach
InitRestart ==
    /\ state = IdleState
    /\ lastCall = NoCall
    /\ file \in Files
    /\ \E config \in Configs :
          /\ config.auditBatchSize = MaxCap + 1
          /\ logger = NewAuditLogger(config, "full", file)
    /\ pending = {}
    /\ requests = <<>>
    /\ now = 1
    /\ stopCall = NoStop
    /\ boot = FirstBoot
    /\ InitConnIdle
    /\ InitBackgroundIdle

SpecRestart == InitRestart /\ [][NextRestart]_vars

(***************************************************************************)
(* The connection state machine: the heartbeat reports successes and       *)
(* failures, higher layers report a lost session.  The manager's audit     *)
(* logger runs at level off here; lastConn records the enqueue calls.      *)
(***************************************************************************)
InitConn ==
    /\ state = IdleState
    /\ lastCall = NoCall
    /\ InitAuditIdle
    /\ \E failureThreshold \in 1..MaxThreshold :
          conn = NewConnectionStateManager(failureThreshold, TRUE)
    /\ lastConn = NoConnCall(conn)
    /\ InitBackgroundIdle

\* a call on the manager that did `did`
ConnCall(op, did) ==
    LET w == enqueueAll(World, did.enq)
    IN  /\ w.now <= MaxEvents + 1
        /\ Len(w.requests) <= MaxRequests
        /\ conn' = did.conn
        /\ lastConn' = [called |-> TRUE, op |-> op, before |-> conn, enq |-> did.enq]
        /\ SetWorld(w)
        /\ UNCHANGED <<enforcerVars, lifeVars, backgroundVars>>

\* the heartbeat got its response
RecordSuccess ==
    /\ conn.state \in ConnectionStates
    /\ ConnCall("recordSuccess", recordSuccess(conn, now))

\* the heartbeat failed
RecordFailure ==
    /\ conn.consecutiveFailures < MaxFailures
    /\ ConnCall("recordFailure", recordFailure(conn))

\* a higher layer lost the session
SetUnauthenticated ==
    /\ conn.state \in ConnectionStates
    /\ ConnCall("setUnauthenticated", setUnauthenticated(conn))

NextConn ==
    \/ RecordSuccess
    \/ RecordFailure
    \/ SetUnauthenticated

SpecConn == InitConn /\ [][NextConn]_vars

(***************************************************************************)
(* The heartbeat: the interval timer issues requests without waiting for   *)
(* the previous one, each response is any of HeartbeatResponses, and the   *)
(* host calls the hook in between.  heartbeat() treats a response the same *)
(* whichever request it answers, so here the oldest request is the one     *)
(* answered; SpecOrder lets the responses arrive in any order.  The KillSwitchManager and the                     *)
(* ConnectionStateManager get the same threshold, as everywhere the plugin *)
(* and its tests construct them.                                           *)
(***************************************************************************)
HeartbeatConfigs ==
    [controlPlaneUrl : {"https://cp"},
     heartbeatFailureThreshold : 1..MaxThreshold,
     offlineMode : {Undefined, "block", "allow", "cached"}]

HeartbeatPolicies == {NullPolicy, OrgPolicy(<<<<"e","x","e","c">>>>, <<>>)}

HeartbeatTools == {<<"E","X","E","C">>, <<"r","e","a","d">>}

\* what fetch can settle with: a 2xx with a heartbeat body (a policy refresh
\* is asked for with the kill switch off), a 2xx whose body does not parse, a
\* non-2xx, a rejection
HeartbeatResponses ==
    [status : {200}, json : {TRUE}, killSwitch : BOOLEAN,
     killSwitchMessage : KillSwitchMessages, refreshPolicyNow : {FALSE}]
    \cup [status : {200}, json : {TRUE}, killSwitch : {FALSE},
          killSwitchMessage : {Undefined}, refreshPolicyNow : {TRUE}]
    \cup [status : {0, 200, 401, 500}, json : {FALSE}, killSwitch : {FALSE},
          killSwitchMessage : {Undefined}, refreshPolicyNow : {FALSE}]

InitHeartbeat ==
    /\ state \in [policy : HeartbeatPolicies, killSwitchActive : {FALSE},
                  killSwitchMessage : {Undefined}, offlineOverride : {Undefined}]
    /\ lastCall = NoCall
    /\ InitAuditIdle
    /\ \E config \in HeartbeatConfigs :
          /\ killSwitchManager = NewKillSwitchManager(config, "returns")
          /\ conn = NewConnectionStateManager(config.heartbeatFailureThreshold, TRUE)
    /\ lastConn = NoConnCall(conn)
    /\ beats = <<>>
    /\ lastBeat = NoBeat(conn, state)
    /\ InitSessionIdle

\* start(): arm the heartbeat timer
StartHeartbeat ==
    /\ ~killSwitchManager.timer
    /\ killSwitchManager' = [killSwitchManager EXCEPT !.timer = TRUE]
    /\ UNCHANGED <<enforcerVars, auditVars, lifeVars, connVars, beats, lastBeat, sessionVars>>

\* stop(): clear the heartbeat timer
StopHeartbeat ==
    /\ killSwitchManager.timer
    /\ killSwitchManager' = [killSwitchManager EXCEPT !.timer = FALSE]
    /\ UNCHANGED <<enforcerVars, auditVars, lifeVars, connVars, beats, lastBeat, sessionVars>>

\* the timer fires: heartbeat() up to its await of fetch
HeartbeatTick ==
    /\ killSwitchManager.timer
    /\ killSwitchManager.controlPlaneUrl # ""
    /\ Len(beats) < MaxBeats
    /\ beats' = Append(beats, FALSE)
    /\ UNCHANGED <<enforcerVars, auditVars, lifeVars, connVars, killSwitchManager, lastBeat, sessionVars>>

\* the requests left when request i is answered with `response`: a 2xx
\* overtakes the requests issued before i
Answered(i, response) ==
    [j \in 1..(Len(beats) - 1) |->
        IF j < i THEN beats[j] \/ (ok(response) /\ response.json) ELSE beats[j + 1]]

\* the fetch of request i settles: heartbeat() from its await on
HeartbeatResponse(i, response) ==
    LET did == heartbeat(killSwitchManager, conn, state, response, now)
        w == enqueueAll(World, did.enq)
    IN  /\ i \in 1..Len(beats)
        /\ did.conn.consecutiveFailures <= MaxFailures
        /\ beats' = Answered(i, response)
        /\ conn' = did.conn
        /\ state' = did.state
        /\ lastBeat' = [called |-> TRUE, response |-> response, refresh |-> did.refresh,
                        reported |-> did.reported, overtaken |-> beats[i],
                        before |-> [conn |-> conn, state |-> state]]
        /\ SetWorld(w)
        /\ UNCHANGED <<lastCall, lifeVars, lastConn, killSwitchManager, sessionVars>>

NextHeartbeat ==
    \/ StartHeartbeat
    \/ StopHeartbeat
    \/ HeartbeatTick
    \/ \E response \in HeartbeatResponses : HeartbeatResponse(1, response)
    \/ \E toolName \in HeartbeatTools : Authorize(toolName)

SpecHeartbeat == InitHeartbeat /\ [][NextHeartbeat]_vars

(***************************************************************************)
(* The heartbeat with the order of the requests tracked: fetch has no      *)
(* timeout and the timer does not wait, so the response of a request can   *)
(* arrive after the response of a request issued later.                    *)
(***************************************************************************)
NextOrder ==
    \/ StartHeartbeat
    \/ StopHeartbeat
    \/ HeartbeatTick
    \/ \E i \in 1..Len(beats), response \in HeartbeatResponses : HeartbeatResponse(i, response)

SpecOrder == InitHeartbeat /\ [][NextOrder]_vars

(***************************************************************************)
(* The heartbeat of a manager whose onPolicyRefreshNeeded callback throws. *)
(***************************************************************************)
InitCallback ==
    /\ state = [policy |-> NullPolicy, killSwitchActive |-> FALSE,
                killSwitchMessage |-> Undefined, offlineOverride |-> Undefined]
    /\ lastCall = NoCall
    /\ InitAuditIdle
    /\ \E config \in HeartbeatConfigs :
          /\ killSwitchManager = NewKillSwitchManager(config, "throws")
          /\ conn = NewConnectionStateManager(config.heartbeatFailureThreshold, TRUE)
    /\ lastConn = NoConnCall(conn)
    /\ beats = <<>>
    /\ lastBeat = NoBeat(conn, state)
    /\ InitSessionIdle

SpecCallback == InitCallback /\ [][NextOrder]_vars

(***************************************************************************)
(* The token refresh: the check timer fires at any time, the refresh       *)
(* endpoint answers each call with a session or an error, and the clock    *)
(* advances in steps of the refresh buffer.  saveSession and the           *)
(* onTokenRefreshed callback return normally.                              *)
(***************************************************************************)
Clock == {n * REFRESH_BUFFER_MS : n \in 0..MaxClock}

\* the session the manager is constructed with, as the session file holds it
InitialSessions ==
    {Session(refreshToken, expiresAt) :
        refreshToken \in {Undefined, "r0"},
        expiresAt \in {0, REFRESH_BUFFER_MS, 2 * REFRESH_BUFFER_MS}}

\* the sessions the refresh endpoint returns
ReturnedSessions ==
    {Session(refreshToken, n * REFRESH_BUFFER_MS) :
        refreshToken \in {"r1", "r2"}, n \in 1..(MaxClock + 2)}

\* what refreshSessionToken settles with
RefreshResults ==
    {[ok |-> TRUE, session |-> session] : session \in ReturnedSessions}
    \cup {[ok |-> FALSE, session |-> NoSession]}

Keeper == [manager |-> tokenRefresh, file |-> sessionFile, log |-> refreshLog]

SetKeeper(k) ==
    /\ tokenRefresh' = k.manager
    /\ sessionFile' = k.file
    /\ refreshLog' = k.log

InitSession ==
    /\ state = IdleState
    /\ lastCall = NoCall
    /\ InitAuditIdle
    /\ InitConnIdle
    /\ InitHeartbeatIdle
    /\ \E controlPlaneUrl \in {"", "https://cp"}, session \in InitialSessions :
          /\ tokenRefresh = NewTokenRefreshManager(controlPlaneUrl, session)
          /\ sessionFile = session
    /\ refreshLog = NoRefreshLog
    /\ time = 0

\* start(): arm the check timer, unless there is nothing to refresh with
StartRefresh ==
    /\ ~tokenRefresh.timer
    /\ tokenRefresh.controlPlaneUrl # ""
    /\ tokenRefresh.session.refreshToken # Undefined
    /\ tokenRefresh' = [tokenRefresh EXCEPT !.timer = TRUE]
    /\ UNCHANGED <<enforcerVars, auditVars, lifeVars, connVars, heartbeatVars,
                   sessionFile, refreshLog, time>>

\* stop(): clear the check timer
StopRefresh ==
    /\ tokenRefresh.timer
    /\ tokenRefresh' = [tokenRefresh EXCEPT !.timer = FALSE]
    /\ UNCHANGED <<enforcerVars, auditVars, lifeVars, connVars, heartbeatVars,
                   sessionFile, refreshLog, time>>

\* the check timer fires
RefreshTick ==
    /\ tokenRefresh.timer
    /\ SetKeeper(checkAndRefresh(Keeper, time))
    /\ UNCHANGED <<enforcerVars, auditVars, lifeVars, connVars, heartbeatVars, time>>

\* refreshSessionToken settles
RefreshResult(result) ==
    /\ tokenRefresh.phase = "awaiting"
    /\ SetKeeper(refreshWithRetry(Keeper, result))
    /\ UNCHANGED <<enforcerVars, auditVars, lifeVars, connVars, heartbeatVars, time>>

\* the sleep between two attempts is over
RetryWake ==
    /\ tokenRefresh.phase = "sleeping"
    /\ SetKeeper(retryAfterSleep(Keeper))
    /\ UNCHANGED <<enforcerVars, auditVars, lifeVars, connVars, heartbeatVars, time>>

\* time passes
Advance ==
    /\ time + REFRESH_BUFFER_MS \in Clock
    /\ time' = time + REFRESH_BUFFER_MS
    /\ UNCHANGED <<enforcerVars, auditVars, lifeVars, connVars, heartbeatVars,
                   tokenRefresh, sessionFile, refreshLog>>

NextSession ==
    \/ StartRefresh
    \/ StopRefresh
    \/ RefreshTick
    \/ \E result \in RefreshResults : RefreshResult(result)
    \/ RetryWake
    \/ Advance

SpecSession == InitSession /\ [][NextSession]_vars

(***************************************************************************)
(* Claims about the enforcer.                                              *)
(***************************************************************************)
\* the call recorded in lastCall was decided by the override-free, kill-switch-free path
PolicyPath == state.offlineOverride = Undefined /\ ~state.killSwitchActive

\* the normalized name of the recorded call
CalledName == normalizeToolName(lastCall.toolName)

\* C1: one authorize call makes exactly one enqueue call, of type
\* tool_call_attempt, whose outcome is allowed exactly when the call returns
\* allow and blocked exactly when it returns block.
C1_OneMatchingAuditPerCall ==
    lastCall.called =>
        /\ Len(lastCall.enq) = 1
        /\ lastCall.enq[1].eventType = "tool_call_attempt"
        /\ lastCall.result.kind \in {"allow", "block"}
        /\ (lastCall.enq[1].outcome = "allowed") <=> (lastCall.result.kind = "allow")
        /\ (lastCall.enq[1].outcome = "blocked") <=> (lastCall.result.kind = "block")

\* C1 witness: a call blocked by the deny list of a loaded policy, audited once
C1_Witness ==
    /\ lastCall.called
    /\ PolicyPath
    /\ state.policy.kind = "policy"
    /\ lastCall.result.kind = "block"
    /\ Len(lastCall.enq) = 1
    /\ lastCall.enq[1].metadata = Meta("deny_list")

\* C2 as stated: with the kill switch active and the override not 'allow'
\* (none or 'cached'), authorize returns block.
C2_Original ==
    (lastCall.called /\ state.killSwitchActive /\ state.offlineOverride # "allow")
        => lastCall.result.kind = "block"

\* C2 amended: with the kill switch active and no offline override set,
\* authorize returns block for every tool name and every policy, with the
\* kill switch's message and audit reason kill_switch.
C2_KillSwitchBlocksWithoutOverride ==
    (lastCall.called /\ state.killSwitchActive /\ state.offlineOverride = Undefined)
        => /\ lastCall.result.kind = "block"
           /\ lastCall.result.blockReason.text =
                 (IF state.killSwitchMessage # Undefined
                  THEN state.killSwitchMessage ELSE DefaultKillSwitchReason)
           /\ Len(lastCall.enq) = 1
           /\ lastCall.enq[1].outcome = "blocked"
           /\ lastCall.enq[1].metadata = Meta("kill_switch")

\* C2 witness: the kill switch blocks a tool the loaded policy lists as allowed
C2_Witness ==
    /\ lastCall.called
    /\ state.killSwitchActive
    /\ state.offlineOverride = Undefined
    /\ state.policy.kind = "policy"
    /\ state.policy.deny = <<>>
    /\ Len(state.policy.allow) > 0
    /\ CalledName \in expandGroups(state.policy.allow)
    /\ lastCall.result.kind = "block"

\* C3: with override 'cached' the decision is that of policy evaluation alone
\* on the loaded policy, whatever the kill-switch flag.
C3_CachedSkipsKillSwitch ==
    (lastCall.called /\ state.offlineOverride = "cached")
        => lastCall.result =
              enforcePolicy(state.policy, CalledName,
                            [toolName |-> lastCall.toolName], Ctx, Undefined).result

\* C3 witness: cached mode allows a call while the kill switch is active
C3_Witness ==
    /\ lastCall.called
    /\ state.offlineOverride = "cached"
    /\ state.killSwitchActive
    /\ state.policy.kind = "policy"
    /\ lastCall.result.kind = "allow"

\* C4: with override 'allow' authorize returns allow whatever the kill switch
\* and the policy, and its audit event is allowed / offline_allow_mode.
C4_OfflineAllow ==
    (lastCall.called /\ state.offlineOverride = "allow")
        => /\ lastCall.result = Allow
           /\ Len(lastCall.enq) = 1
           /\ lastCall.enq[1].outcome = "allowed"
           /\ lastCall.enq[1].metadata = Meta("offline_allow_mode")

\* C4 witness: a denied tool is allowed while the kill switch is active
C4_Witness ==
    /\ lastCall.called
    /\ state.offlineOverride = "allow"
    /\ state.killSwitchActive
    /\ state.policy.kind = "policy"
    /\ CalledName \in expandGroups(state.policy.deny)
    /\ lastCall.result.kind = "allow"

\* C5: on the policy path with a policy loaded, authorize blocks exactly when
\* the normalized name is in the expanded deny list, or the allow list is
\* non-empty and the name is not in its expansion; otherwise it allows. So a
\* tool in both lists is blocked, empty lists allow every tool, and a
\* non-empty allow list with an empty deny list allows only the listed tools.
C5_PolicyDecision ==
    (lastCall.called /\ PolicyPath /\ state.policy.kind = "policy")
        => LET inDeny == CalledName \in expandGroups(state.policy.deny)
               inAllow == CalledName \in expandGroups(state.policy.allow)
               blocked == lastCall.result.kind = "block"
               allowed == lastCall.result.kind = "allow"
           IN  /\ blocked <=> (inDeny \/ (state.policy.allow # <<>> /\ ~inAllow))
               /\ allowed <=> ~blocked
               /\ (inDeny /\ inAllow) => blocked
               /\ (state.policy.deny = <<>> /\ state.policy.allow = <<>>) => allowed
               /\ (state.policy.deny = <<>> /\ state.policy.allow # <<>>)
                     => (allowed <=> inAllow)

\* C5 witness: a tool in both lists is blocked
C5_Witness ==
    /\ lastCall.called
    /\ PolicyPath
    /\ state.policy.kind = "policy"
    /\ CalledName \in expandGroups(state.policy.deny)
    /\ CalledName \in expandGroups(state.policy.allow)
    /\ lastCall.result.kind = "block"

\* C6: authorize(n) allows exactly when authorize(normalize(n)) allows, and a
\* policy that denies exec blocks a call to bash with audit outcome blocked
\* and reason deny_list.
C6_DecisionThroughNormalizedName ==
    lastCall.called =>
        /\ (lastCall.result.kind = "allow") <=>
              (createToolEnforcerHook(state, [toolName |-> CalledName], Ctx).result.kind
                   = "allow")
        /\ (/\ PolicyPath
            /\ state.policy.kind = "policy"
            /\ state.policy.deny = <<<<"e","x","e","c">>>>
            /\ trim(lastCall.toolName) \in {<<"b","a","s","h">>, <<"B","a","s","h">>})
              => /\ lastCall.result.kind = "block"
                 /\ lastCall.enq[1].toolName = <<"e","x","e","c">>
                 /\ lastCall.enq[1].outcome = "blocked"
                 /\ lastCall.enq[1].metadata = Meta("deny_list")

\* C6 witness: deny [exec], call of " Bash\t", blocked
C6_Witness ==
    /\ lastCall.called
    /\ PolicyPath
    /\ state.policy = OrgPolicy(<<<<"e","x","e","c">>>>, <<>>)
    /\ lastCall.toolName = <<" ","B","a","s","h","\t">>
    /\ lastCall.result.kind = "block"

GroupPrefix == <<"g","r","o","u","p",":">>

\* a selector of the form group:<id> whose id is not in the tool-group table
UnknownGroupSelector(entry) ==
    LET n == normalizeToolName(entry)
    IN  /\ Len(n) > Len(GroupPrefix)
        /\ SubSeq(n, 1, Len(GroupPrefix)) = GroupPrefix
        /\ n \notin DOMAIN TOOL_GROUPS

\* C7 as stated: an unknown group:<id> selector adds no name to an expansion,
\* so a deny list made of such selectors blocks no tool, not even one named
\* like the selector.
C7_Original ==
    (/\ lastCall.called
     /\ PolicyPath
     /\ state.policy.kind = "policy"
     /\ state.policy.allow = <<>>
     /\ \A i \in 1..Len(state.policy.deny) : UnknownGroupSelector(state.policy.deny[i]))
        => /\ expandGroups(state.policy.deny) = {}
           /\ lastCall.result.kind = "allow"

\* C8 as stated: authorize never throws, and where policy evaluation meets a
\* policy object without a tools field it allows with reason no_policy.
C8_Original ==
    lastCall.called =>
        /\ lastCall.result.kind # "throw"
        /\ (PolicyPath /\ state.policy.kind = "no_tools")
              => /\ lastCall.result = Allow
                 /\ Len(lastCall.enq) = 1
                 /\ lastCall.enq[1].metadata = Meta("no_policy")

(***************************************************************************)
(* Claims about the audit logger.                                          *)
(***************************************************************************)
\* the events of a sequence of batches, as a set of timestamps
Stamps(events) == {events[i].timestamp : i \in 1..Len(events)}

\* an event is gone: neither buffered, nor in flight, nor acknowledged
Discarded(timestamp) ==
    /\ timestamp \notin Stamps(logger.buffer)
    /\ \A req \in pending : timestamp \notin Stamps(req.batch)
    /\ \A i \in 1..Len(requests) :
          requests[i].response = "ok" => timestamp \notin Stamps(requests[i].batch)

\* C9: the in-memory buffer never holds more than maxAuditBufferSize events,
\* after construction from a buffer file, enqueues, flush starts and flush
\* completions of every kind.
C9_BufferBounded == Len(logger.buffer) <= logger.maxBufferSize

\* C9 witness: a failed flush re-prepended its batch onto a buffer that was
\* then trimmed to the limit
C9_Witness ==
    /\ logger.maxBufferSize > 0
    /\ Len(logger.buffer) = logger.maxBufferSize
    /\ \E i \in 1..Len(requests) :
          /\ requests[i].response = "failed"
          /\ \E k \in 1..Len(requests[i].batch) :
                Discarded(requests[i].batch[k].timestamp)

\* requests lists the POSTs in the order they were issued, which is the order
\* they reach the control plane; "earlier" and "later" requests are read there.
\* C10 as stated: no event is delivered in a successful request before an
\* earlier-enqueued event that is delivered in a later successful request.
C10_Original ==
    \A i, j \in 1..Len(requests) :
        (i < j /\ requests[i].response = "ok" /\ requests[j].response = "ok")
            => \A a \in Stamps(requests[i].batch), b \in Stamps(requests[j].batch) : a < b

\* a sequence of events is in strictly increasing enqueue order
StrictlyIncreasing(events) ==
    \A i, j \in 1..Len(events) : i < j => events[i].timestamp < events[j].timestamp

\* C11 as stated: within every batch a flush sends, the events appear in
\* strictly increasing enqueue order, also after re-prepends by failed
\* flushes that were in flight at the same time and failed in any order.
C11_Original ==
    \A i \in 1..Len(requests) : StrictlyIncreasing(requests[i].batch)

\* the events of the buffer file, as a set of timestamps
FileStamps == IF file.exists THEN Stamps(ParsedLines(file.lines)) ELSE {}

\* the events the process holds that no 2xx response has acknowledged: those
\* in the buffer and those of the requests in flight
Unacknowledged ==
    Stamps(logger.buffer) \cup UNION {Stamps(req.batch) : req \in pending}

\* C12 as stated: when stop() has completed, every accepted event that the
\* capacity limit did not discard has been acknowledged by a 2xx response or
\* is in the buffer file, so every event still held unacknowledged is in the
\* file, for any interleaving of enqueues and flushes before and during stop().
C12_Original ==
    stopCall.status = "done" => Unacknowledged \subseteq FileStamps

\* C13 as stated: with no control-plane URL, the buffer file contains every
\* event handed to any flush so far, up to maxAuditBufferSize with the oldest
\* dropped first; so an event on disk stays on disk through a later flush
\* unless the file is full of newer events.
C13_Original ==
    [][logger.controlPlaneUrl = ""
          => \A ts \in FileStamps :
                \/ ts \in FileStamps'
                \/ /\ Cardinality(FileStamps') >= logger.maxBufferSize
                   /\ \A newer \in FileStamps' : ts < newer]_vars

\* every event a process of this model can have built or found on disk
KnownEvents ==
    {NewEvent([auditLevel |-> "full"], params, t) :
        params \in AuditParams, t \in 1..(MaxEvents + 1)}
        \cup {PastEvent(t) : t \in (0 - MaxDiskLines)..0}

\* the event whose JSON.stringify a well-formed line of the file is
Written(line) == CHOOSE e \in KnownEvents : JSON_stringify(e) = line

\* the events persisted in a file, in the order of their lines
RECURSIVE WrittenEvents(_)
WrittenEvents(lines) ==
    IF lines = <<>> THEN <<>>
    ELSE IF Head(lines).json
         THEN <<Written(Head(lines))>> \o WrittenEvents(Tail(lines))
         ELSE WrittenEvents(Tail(lines))

\* the last n elements of a sequence (all of it when it is shorter)
LastN(seq, n) ==
    IF Len(seq) <= n THEN seq ELSE SubSeq(seq, Len(seq) - n + 1, Len(seq))

\* the first batch sent after the last restart starts with the loaded events
\* that the capacity limit has left, in their order in the file
ShipsLoadedInOrder ==
    (boot.restarted /\ Len(requests) > boot.requests)
        => LET batch == requests[boot.requests + 1].batch
               k == Cardinality({i \in 1..Len(batch) :
                                   batch[i].timestamp \in Stamps(boot.loaded)})
           IN  /\ SubSeq(batch, 1, k) = LastN(boot.loaded, k)
               /\ k = Len(boot.loaded) \/ Len(batch) = logger.maxBufferSize

\* C14: persist then reload is a round trip: a logger constructed on the
\* buffer file starts with the events persisted there, in the order of the
\* file, without the malformed lines and without the oldest events beyond
\* maxAuditBufferSize, and its next flush ships them in that order.
C14_ReloadRoundTrip ==
    [][/\ Restart => logger'.buffer =
                         LastN(WrittenEvents(file.lines), logger.maxBufferSize)
       /\ ShipsLoadedInOrder']_vars

\* C14 witness: a restart loaded an event found on disk at the start and an
\* event with metadata that a failed flush persisted, and the next flush
\* shipped both
C14_Witness ==
    /\ boot.restarted
    /\ Len(boot.loaded) >= 2
    /\ \E i \in 1..Len(boot.loaded) : boot.loaded[i].metadata.defined
    /\ \E i \in 1..Len(boot.loaded) : boot.loaded[i].timestamp <= 0
    /\ Len(requests) > boot.requests
    /\ requests[boot.requests + 1].batch = boot.loaded

\* the timestamps of a sequence of events, in its order
StampSeq(events) == [i \in 1..Len(events) |-> events[i].timestamp]

\* the events the process holds or has delivered
Held ==
    Unacknowledged
        \cup UNION {Stamps(requests[i].batch) :
                      i \in {k \in 1..Len(requests) : requests[k].response = "ok"}}

\* C15 as stated: on overflow the oldest events are the ones discarded.  With
\* a batch size larger than the cap, an enqueue leaves the last
\* maxAuditBufferSize events of the buffer and the new event, in enqueue
\* order; and whenever an event is
\* discarded, by an enqueue or by a failed flush that re-prepends its batch,
\* it was enqueued before every event the buffer keeps.
C15_Original ==
    [][/\ (now' = now + 1 /\ logger.batchSize > logger.maxBufferSize)
            => StampSeq(logger'.buffer) =
                  LastN(Append(StampSeq(logger.buffer), now), logger.maxBufferSize)
       /\ logger.controlPlaneUrl # ""
            => \A gone \in Held \ Held' :
                  \A kept \in Stamps(logger'.buffer) : gone < kept]_vars

\* every event the process holds or has sent
AllEvents ==
    Range(logger.buffer) \cup UNION {Range(requests[i].batch) : i \in 1..Len(requests)}

\* what an enqueue call with `params` at clock reading t has done afterwards
EnqueueHonoursLevel(params, level, t) ==
    \E e \in AllEvents' :
        /\ e.timestamp = t
        /\ e.metadata = IF level = "full" THEN params.metadata ELSE MetaUndefined

\* C16: enqueue honours the audit level current at the call: at off it
\* changes nothing (no event, no flush), at metadata the event it buffers has
\* no metadata, at full the event carries the caller's metadata; and
\* updateAuditLevel leaves the events enqueued before it as they are.
C16_EnqueueHonoursAuditLevel ==
    [][/\ \A params \in LevelParams :
            Enqueue(params) =>
                IF logger.auditLevel = "off"
                THEN UNCHANGED auditVars
                ELSE EnqueueHonoursLevel(params, logger.auditLevel, now)
       /\ \A level \in AuditLevels :
            UpdateAuditLevel(level) =>
                /\ logger'.buffer = logger.buffer
                /\ UNCHANGED <<file, pending, requests>>]_vars

\* C16 witness: the buffer, at or above the batch size after a failed flush,
\* holds an event enqueued at full with its metadata and a later one
\* enqueued at metadata without, and the level is now off
C16_Witness ==
    /\ logger.auditLevel = "off"
    /\ Len(logger.buffer) >= 2
    /\ Len(logger.buffer) >= logger.batchSize
    /\ logger.buffer[1].metadata = Meta("deny_list")
    /\ logger.buffer[2].metadata = MetaUndefined
    /\ logger.buffer[2].outcome = "blocked"

\* the event the recorded call of the hook left in the audit buffer
BufferedAttempt == logger.buffer[Len(logger.buffer)]

\* C17 as stated: at every audit level other than off and on every decision
\* path, the tool_call_attempt event that ends up in the audit buffer carries
\* a reason tag.
C17_Original ==
    (lastCall.called /\ logger.auditLevel # "off")
        => /\ Len(logger.buffer) = 1
           /\ BufferedAttempt.eventType = "tool_call_attempt"
           /\ BufferedAttempt.metadata.defined
           /\ BufferedAttempt.metadata.reason # ""

\* the metadata the hook passes on the path the recorded call took
PathMetadata ==
    LET cached == state.offlineOverride = "cached"
        suffix == IF cached THEN " (offline_cached_mode)" ELSE ""
    IN  IF state.offlineOverride = "allow" THEN Meta("offline_allow_mode")
        ELSE IF ~cached /\ state.killSwitchActive THEN Meta("kill_switch")
        ELSE IF state.policy.kind = "null"
        THEN Meta(IF cached THEN "offline_cached_mode" ELSE "no_policy")
        ELSE IF CalledName \in expandGroups(state.policy.deny)
        THEN Meta("deny_list" \o suffix)
        ELSE IF state.policy.allow # <<>>
                /\ CalledName \notin expandGroups(state.policy.allow)
        THEN Meta("not_in_allowlist" \o suffix)
        ELSE IF cached THEN Meta("offline_cached_mode") ELSE MetaUndefined

\* C17, amended: the call leaves one tool_call_attempt event in the buffer; at
\* audit level full it carries the reason tag of the path taken
\* (offline_allow_mode, kill_switch, no_policy, deny_list, not_in_allowlist,
\* in cached mode offline_cached_mode alone or as a suffix) and no metadata
\* on a plain allow outside cached mode; at level metadata it carries none.
C17_ReasonAtFullLevel ==
    (lastCall.called /\ logger.auditLevel # "off")
        => /\ Len(logger.buffer) = 1
           /\ BufferedAttempt.eventType = "tool_call_attempt"
           /\ BufferedAttempt.metadata =
                 IF logger.auditLevel = "full" THEN PathMetadata ELSE MetaUndefined

\* C17 witness: at level full, a call blocked by the allow list in cached
\* mode left an event with the suffixed tag in the buffer
C17_Witness ==
    /\ lastCall.called
    /\ logger.auditLevel = "full"
    /\ state.offlineOverride = "cached"
    /\ lastCall.result.kind = "block"
    /\ Len(logger.buffer) = 1
    /\ BufferedAttempt.metadata = Meta("not_in_allowlist (offline_cached_mode)")

(***************************************************************************)
(* Claims about the connection state machine.                              *)
(***************************************************************************)
\* C18: in every state reachable by recordSuccess, recordFailure and
\* setUnauthenticated, with a failure threshold of at least 1, state offline
\* implies consecutiveFailures >= failureThreshold.
C18_OfflineImpliesThreshold ==
    (conn.failureThreshold >= 1 /\ conn.state = "offline")
        => conn.consecutiveFailures >= conn.failureThreshold

\* C18 witness: offline entered from unauthenticated, by a failure that
\* brought the count past a threshold of at least 2
C18_Witness ==
    /\ conn.state = "offline"
    /\ conn.failureThreshold >= 2
    /\ lastConn.called
    /\ lastConn.op = "recordFailure"
    /\ lastConn.before.state = "unauthenticated"

\* C19: the machine follows its transition table from every state: it starts
\* connected with 0 failures; recordSuccess yields connected with 0 failures;
\* recordFailure adds one to the count and yields offline when the new count
\* is at least the threshold, degraded otherwise; setUnauthenticated yields
\* unauthenticated and leaves the count as it was.
C19_TransitionTable ==
    LET before == lastConn.before
    IN  /\ ~lastConn.called
            => conn.state = "connected" /\ conn.consecutiveFailures = 0
        /\ (lastConn.called /\ lastConn.op = "recordSuccess")
            => conn.state = "connected" /\ conn.consecutiveFailures = 0
        /\ (lastConn.called /\ lastConn.op = "recordFailure")
            => /\ conn.consecutiveFailures = before.consecutiveFailures + 1
               /\ conn.state = IF conn.consecutiveFailures >= conn.failureThreshold
                                THEN "offline" ELSE "degraded"
        /\ (lastConn.called /\ lastConn.op = "setUnauthenticated")
            => /\ conn.state = "unauthenticated"
               /\ conn.consecutiveFailures = before.consecutiveFailures
        /\ conn.failureThreshold = before.failureThreshold

\* C19 witness: a failure while unauthenticated, below the threshold, yields degraded
C19_Witness ==
    /\ lastConn.called
    /\ lastConn.op = "recordFailure"
    /\ lastConn.before.state = "unauthenticated"
    /\ lastConn.before.consecutiveFailures = 1
    /\ conn.state = "degraded"

\* C20: a call of recordSuccess, recordFailure or setUnauthenticated enqueues
\* exactly one kill_switch_activated event, carrying the previous and the new
\* state, when it changes the state, and none when it does not; the event's
\* outcome is success exactly when the new state is connected, else error.
C20_OneEventPerTransition ==
    lastConn.called =>
        IF conn.state # lastConn.before.state
        THEN /\ Len(lastConn.enq) = 1
             /\ lastConn.enq[1].eventType = "kill_switch_activated"
             /\ lastConn.enq[1].metadata.defined
             /\ lastConn.enq[1].metadata.from = lastConn.before.state
             /\ lastConn.enq[1].metadata.to = conn.state
             /\ lastConn.enq[1].outcome =
                   IF conn.state = "connected" THEN "success" ELSE "error"
        ELSE lastConn.enq = <<>>

\* C20 witness: a success while offline enqueued one event, offline to
\* connected, with outcome success
C20_Witness ==
    /\ lastConn.called
    /\ lastConn.op = "recordSuccess"
    /\ lastConn.before.state = "offline"
    /\ Len(lastConn.enq) = 1
    /\ lastConn.enq[1].outcome = "success"
    /\ lastConn.enq[1].metadata =
          TransitionMeta("offline", "connected", 0)

(***************************************************************************)
(* Claims about the heartbeat.                                             *)
(***************************************************************************)
\* the last response processed was a 2xx with a heartbeat body
Processed2xx == lastBeat.called /\ ok(lastBeat.response) /\ lastBeat.response.json

\* what kill switch and policy decide for a call of toolName
PolicyDecision(toolName) ==
    enforcePolicy(state.policy, normalizeToolName(toolName),
                  [toolName |-> toolName], Ctx, Undefined).result

BlockOutage ==
    /\ killSwitchManager.offlineMode = "block"
    /\ lastBeat.called
    /\ ~Processed2xx
    /\ conn.consecutiveFailures >= killSwitchManager.failureThreshold

\* C23: in offline mode block, from the failed heartbeat that brings the
\* consecutive failures to the threshold until the next 2xx response is
\* processed, the connection manager is offline, the kill switch is active
\* with the cannot-reach-control-plane message, and every authorize call
\* returns block with that message.
C23_BlockModeOutage ==
    /\ [](BlockOutage =>
            /\ conn.state = "offline"
            /\ state.killSwitchActive
            /\ state.killSwitchMessage = OfflineBlockMessage
            /\ state.offlineOverride = Undefined)
    /\ [][\A toolName \in HeartbeatTools :
            (Authorize(toolName) /\ BlockOutage) =>
                lastCall'.result = Block(OfflineBlockMessage, <<>>)]_vars

\* C23 witness: the failure that reached the threshold found the manager
\* degraded and the kill switch off, and a call the policy allows was blocked
C23_Witness ==
    /\ BlockOutage
    /\ lastBeat.before.conn.state = "degraded"
    /\ ~lastBeat.before.state.killSwitchActive
    /\ conn.consecutiveFailures = killSwitchManager.failureThreshold
    /\ lastCall.called
    /\ lastCall.toolName = <<"r","e","a","d">>
    /\ lastCall.result = Block(OfflineBlockMessage, <<>>)

\* the last response processed was a 401
Processed401 == lastBeat.called /\ lastBeat.response.status = 401

\* C24: once a 401 heartbeat response has been processed, the connection
\* manager is unauthenticated and the timer issues no further heartbeat
\* request.
C24_Original ==
    /\ [](Processed401 => conn.state = "unauthenticated")
    /\ [][Processed401 => ~HeartbeatTick]_vars

(***************************************************************************)
(* Claims about the token refresh.                                         *)
(***************************************************************************)
\* the check finds more than the refresh buffer remaining
Fresh == tokenRefresh.session.expiresAt - time > REFRESH_BUFFER_MS

\* C25: a refresh opportunity calls the refresh endpoint at most MAX_RETRIES
\* times; a call that is not the first of its opportunity follows a failed
\* attempt, never a success; and a tick that finds more than the refresh
\* buffer remaining calls nothing and changes nothing.
C25_AtMostThreeCalls ==
    /\ [](refreshLog.calls <= MAX_RETRIES)
    /\ [][(refreshLog'.calls = refreshLog.calls + 1 /\ refreshLog.calls >= 1) =>
             refreshLog.outcome = "retry"]_vars
    /\ [][(RefreshTick /\ Fresh) => UNCHANGED <<tokenRefresh, sessionFile, refreshLog>>]_vars

\* C25 witness: the third call of an opportunity succeeded, and the rotated
\* session is fresh at the time reached
C25_Witness ==
    /\ refreshLog.calls = MAX_RETRIES
    /\ refreshLog.outcome = "rotated"
    /\ tokenRefresh.timer
    /\ time > 0
    /\ Fresh

\* a step that calls the refresh endpoint
RefreshCalled ==
    /\ refreshLog'.outcome = "pending"
    /\ refreshLog'.calls # refreshLog.calls

\* C26: a successful attempt saves the new session, then replaces the session
\* in memory, then invokes onTokenRefreshed once with the new session, and
\* does nothing else; every call of the refresh endpoint sends the refresh
\* token of the session held in memory, which is the session saved last.
C26_RotationOrder ==
    /\ [](refreshLog.outcome = "rotated" =>
            /\ refreshLog.effects =
                  <<Effect("saveSession", tokenRefresh.session),
                    Effect("replace", tokenRefresh.session),
                    Effect("onTokenRefreshed", tokenRefresh.session)>>
            /\ sessionFile = tokenRefresh.session)
    /\ [][RefreshCalled =>
            /\ refreshLog'.sent = tokenRefresh.session.refreshToken
            /\ refreshLog'.sent = sessionFile.refreshToken]_vars

\* C26 witness: a second rotation, whose call sent the refresh token the
\* first rotation had brought
C26_Witness ==
    /\ refreshLog.outcome = "rotated"
    /\ refreshLog.sent = "r1"
    /\ refreshLog.replaced.refreshToken = "r1"
    /\ tokenRefresh.session.refreshToken = "r2"
    /\ Len(refreshLog.effects) = 3

\* C27: when the last attempt of a refresh opportunity has failed, the
\* session in memory and the session file are the ones the opportunity
\* started with, nothing was saved and onTokenRefreshed was not invoked, the
\* connection manager is untouched, and the refreshing flag is clear; the
\* next tick of the check timer starts a new opportunity with a first call.
C27_TotalFailure ==
    /\ [](refreshLog.outcome = "failed" =>
            /\ refreshLog.calls = MAX_RETRIES
            /\ tokenRefresh.session = refreshLog.held
            /\ sessionFile = refreshLog.held
            /\ refreshLog.effects = <<>>
            /\ conn.state # "unauthenticated"
            /\ ~tokenRefresh.refreshing)
    /\ [][(RefreshTick /\ refreshLog.outcome = "failed") =>
            /\ tokenRefresh'.refreshing
            /\ refreshLog'.outcome = "pending"
            /\ refreshLog'.calls = 1
            /\ refreshLog'.sent = refreshLog.held.refreshToken]_vars

\* C27 witness: three calls failed on a session that a rotation had brought
C27_Witness ==
    /\ refreshLog.outcome = "failed"
    /\ refreshLog.calls = MAX_RETRIES
    /\ refreshLog.held.refreshToken = "r1"
    /\ tokenRefresh.timer
    /\ ~tokenRefresh.refreshing

\* C28: after every rotation the expiresAt of the session in memory is
\* strictly greater than the expiresAt of the session it replaced.
C28_Original ==
    refreshLog.outcome = "rotated" =>
        tokenRefresh.session.expiresAt > refreshLog.replaced.expiresAt

(***************************************************************************)
(* Claims about the buffer file while flushes are in flight.               *)
(***************************************************************************)
\* C29: with a control plane configured, an event of the buffer file leaves
\* the file only when the process no longer holds it unacknowledged: a 2xx
\* response has acknowledged a batch with it, or the capacity limit has
\* trimmed it.  So the file holds every persisted event that is still
\* unacknowledged, also while several flushes are in flight.
C29_Original ==
    [][logger.controlPlaneUrl # ""
          => \A ts \in FileStamps : ts \in FileStamps' \/ ts \notin Unacknowledged']_vars

\* no other flush has been in flight since the request was issued
Alone(req) ==
    /\ pending = {req}
    /\ requests[req.id].alone
    /\ Len(requests) = req.id

\* the timestamps of the events enqueued since the request was issued
EnqueuedSince(req) ==
    [i \in 1..(now - requests[req.id].issued) |-> requests[req.id].issued + i - 1]

\* C30: when a flush request fails (non-2xx or error) and no other flush was
\* in flight with it, the buffer afterwards is the failed batch followed by
\* the events enqueued while the request was in flight, cut from the front to
\* maxAuditBufferSize, and the buffer file holds exactly that buffer.
C30_FailedFlushRestores ==
    [][\A req \in pending, response \in {"non2xx", "error"} :
          (FlushResponse(req, response) /\ Alone(req)) =>
              /\ StampSeq(logger'.buffer) =
                    LastN(StampSeq(req.batch) \o EnqueuedSince(req), logger.maxBufferSize)
              /\ logger'.buffer = LastN(req.batch \o logger.buffer, logger.maxBufferSize)
              /\ file'.exists
              /\ ParsedLines(file'.lines) = logger'.buffer]_vars

\* C30 witness: the last request was alone in flight and failed; the buffer
\* and the file hold an event of its batch followed by one enqueued later
C30_Witness ==
    /\ pending = {}
    /\ Len(requests) >= 1
    /\ requests[Len(requests)].response = "failed"
    /\ requests[Len(requests)].alone
    /\ file.exists
    /\ ParsedLines(file.lines) = logger.buffer
    /\ Len(logger.buffer) >= 2
    /\ logger.buffer[1].timestamp \in Stamps(requests[Len(requests)].batch)
    /\ logger.buffer[Len(logger.buffer)].timestamp >= requests[Len(requests)].issued

(***************************************************************************)
(* Claims about detached batches.                                          *)
(***************************************************************************)
\* no event is in two batches in flight
PendingDisjoint ==
    \A r1, r2 \in pending :
        r1 # r2 => Stamps(r1.batch) \cap Stamps(r2.batch) = {}

\* C31: an event enqueued while a request is in flight is not in that
\* request's batch, and the request stays as it was; a 2xx for a request
\* leaves the buffer, with the events enqueued meanwhile, as it is; a flush
\* that sends a request sends the whole buffer and empties it; and no event is
\* in two batches in flight at once.
C31_DetachedBatch ==
    /\ []PendingDisjoint
    /\ [][\A params \in AuditParams :
            Enqueue(params) =>
                \A req \in pending : req \in pending' /\ now \notin Stamps(req.batch)]_vars
    /\ [][\A req \in pending :
            FlushResponse(req, "ok") => logger'.buffer = logger.buffer]_vars
    /\ [][(Flush /\ Len(requests') > Len(requests)) =>
            /\ requests'[Len(requests')].batch = logger.buffer
            /\ logger'.buffer = <<>>]_vars

\* C31 witness: an event enqueued after the batch of a request was detached
\* is in the batch of a later request, issued after the first got its 2xx
C31_Witness ==
    \E i, j \in 1..Len(requests) :
        /\ i < j
        /\ requests[i].response = "ok"
        /\ requests[j].alone
        /\ \E k \in 1..Len(requests[j].batch) :
              /\ requests[j].batch[k].timestamp >= requests[i].issued
              /\ requests[j].batch[k].timestamp \notin Stamps(requests[i].batch)

(***************************************************************************)
(* More claims about the heartbeat.                                        *)
(***************************************************************************)
\* the response makes the heartbeat fail: a rejection, a non-2xx, or a body
\* that does not parse
Failure(response) == ~(ok(response) /\ response.json)

\* C32: a failed heartbeat applies the offline behaviour exactly when the
\* consecutive failures, the one just recorded included, are at or above
\* the threshold: block activates the kill switch with the
\* cannot-reach-control-plane message and clears the override, allow and
\* cached set the override to their name; below the threshold the policy, the
\* kill switch and the override stay as they are.
C32_OfflineBehaviourAtThreshold ==
    [][\A i \in 1..Len(beats), response \in HeartbeatResponses :
          (HeartbeatResponse(i, response) /\ Failure(response)) =>
              /\ conn'.consecutiveFailures = conn.consecutiveFailures + 1
              /\ state'.policy = state.policy
              /\ IF conn'.consecutiveFailures >= killSwitchManager.failureThreshold
                 THEN CASE killSwitchManager.offlineMode = "block" ->
                              /\ state'.killSwitchActive
                              /\ state'.killSwitchMessage = OfflineBlockMessage
                              /\ state'.offlineOverride = Undefined
                        [] killSwitchManager.offlineMode \in {"allow", "cached"} ->
                              /\ state'.offlineOverride = killSwitchManager.offlineMode
                              /\ state'.killSwitchActive = state.killSwitchActive
                              /\ state'.killSwitchMessage = state.killSwitchMessage
                 ELSE state' = state]_vars

\* C32 witness: the failure that reached a threshold above 1 set the allow
\* override, which the failures before it had not
C32_Witness ==
    /\ lastBeat.called
    /\ Failure(lastBeat.response)
    /\ killSwitchManager.offlineMode = "allow"
    /\ killSwitchManager.failureThreshold > 1
    /\ conn.consecutiveFailures = killSwitchManager.failureThreshold
    /\ lastBeat.before.conn.consecutiveFailures = killSwitchManager.failureThreshold - 1
    /\ lastBeat.before.state.offlineOverride = Undefined
    /\ state.offlineOverride = "allow"

\* C33: kill-switch values are applied in the order the requests were
\* issued: the 2xx response of a request never changes the kill switch after
\* the 2xx response of a request issued later has been processed.
C33_Original ==
    ~(/\ Processed2xx
      /\ lastBeat.overtaken
      /\ state.killSwitchActive # lastBeat.before.state.killSwitchActive)

\* C34: once stop() has returned, the response of a request still in flight
\* changes neither the enforcer state nor the connection manager, and no
\* new request is issued.
C34_Original ==
    [][~killSwitchManager.timer =>
          /\ ~HeartbeatTick
          /\ \A i \in 1..Len(beats), response \in HeartbeatResponses :
                HeartbeatResponse(i, response) => UNCHANGED <<state, conn>>]_vars

\* C37: the offline override is set only while the consecutive failures are
\* at or above the threshold, it is then the configured offline mode, and it
\* is never set in offline mode block.
C37_OverrideOnlyOffline ==
    state.offlineOverride # Undefined =>
        /\ state.offlineOverride \in {"allow", "cached"}
        /\ conn.consecutiveFailures >= killSwitchManager.failureThreshold
        /\ state.offlineOverride = killSwitchManager.offlineMode
        /\ killSwitchManager.offlineMode # "block"

\* C37 witness: with a second request in flight, the failure that reached a
\* threshold above 1 set the cached override
C37_Witness ==
    /\ lastBeat.called
    /\ Failure(lastBeat.response)
    /\ Len(beats) > 0
    /\ lastBeat.before.state.offlineOverride = Undefined
    /\ state.offlineOverride = "cached"
    /\ killSwitchManager.failureThreshold > 1
    /\ conn.consecutiveFailures = killSwitchManager.failureThreshold

\* C38: each heartbeat request reports exactly one outcome to the
\* connection manager, recordSuccess or recordFailure and never both, also
\* when the body of a 2xx does not parse and when the onPolicyRefreshNeeded
\* callback throws.
C38_Original ==
    lastBeat.called => Len(lastBeat.reported) = 1

\* C35: at most one refresh sequence is in progress: the refreshing flag is
\* held while a call is awaited and during the backoff waits, and a check
\* that arrives while it is held makes no refresh call and changes neither
\* the manager, nor the session, nor the session file.
C35_ReentrancyGuard ==
    /\ [](tokenRefresh.phase \in {"awaiting", "sleeping"} => tokenRefresh.refreshing)
    /\ [][(RefreshTick /\ tokenRefresh.refreshing) =>
            /\ UNCHANGED <<tokenRefresh, sessionFile>>
            /\ refreshLog' = [refreshLog EXCEPT !.ignored = TRUE]]_vars

\* C35 witness: a check arrived during a refresh sequence that went on to
\* fail once, wait, call again and rotate the session
C35_Witness ==
    /\ refreshLog.ignored
    /\ refreshLog.calls = 2
    /\ refreshLog.outcome = "rotated"
    /\ tokenRefresh.session # refreshLog.held
    /\ ~tokenRefresh.refreshing

\* C36: in every state of the manager reachable by recordSuccess,
\* recordFailure and setUnauthenticated, connected implies no consecutive
\* failures and degraded implies at least one and fewer than the threshold.
C36_StateMatchesFailures ==
    /\ conn.state = "connected" => conn.consecutiveFailures = 0
    /\ conn.state = "degraded" =>
          /\ 1 <= conn.consecutiveFailures
          /\ conn.consecutiveFailures < conn.failureThreshold

\* C36 witness: a failure found the manager unauthenticated with one failure
\* counted and left it degraded, one failure short of the threshold
C36_Witness ==
    /\ lastConn.called
    /\ lastConn.op = "recordFailure"
    /\ lastConn.before.state = "unauthenticated"
    /\ lastConn.before.consecutiveFailures = 1
    /\ conn.state = "degraded"
    /\ conn.consecutiveFailures = conn.failureThreshold - 1

(***************************************************************************)
(* Claims about the places of an audit event.                              *)
(***************************************************************************)
\* the requests that got a 2xx
Acknowledged == {i \in 1..Len(requests) : requests[i].response = "ok"}

\* the timestamps of the events in a batch in flight
InFlight == UNION {Stamps(req.batch) : req \in pending}

\* C39: an accepted audit event is in at most one of the buffer, a batch in
\* flight and an acknowledged batch (in none of them once the capacity limit
\* discarded it): the buffer and every batch hold no event twice, no event is
\* in the buffer and in a batch in flight, none in two batches in flight,
\* and an acknowledged event is neither in the buffer, nor in flight, nor
\* acknowledged a second time.
C39_OnePlace ==
    /\ Cardinality(Stamps(logger.buffer)) = Len(logger.buffer)
    /\ \A req \in pending :
          /\ Cardinality(Stamps(req.batch)) = Len(req.batch)
          /\ Stamps(req.batch) \cap Stamps(logger.buffer) = {}
          /\ \A other \in pending \ {req} : Stamps(req.batch) \cap Stamps(other.batch) = {}
    /\ \A i \in Acknowledged :
          /\ Stamps(requests[i].batch) \cap Stamps(logger.buffer) = {}
          /\ Stamps(requests[i].batch) \cap InFlight = {}
          /\ \A j \in Acknowledged \ {i} :
                Stamps(requests[i].batch) \cap Stamps(requests[j].batch) = {}

\* C39 witness: one batch is acknowledged, the events of a failed batch are
\* back in the buffer, and another batch is in flight
C39_Witness ==
    /\ Acknowledged # {}
    /\ pending # {}
    /\ \E i \in 1..Len(requests) :
          /\ requests[i].response = "failed"
          /\ Stamps(requests[i].batch) \cap Stamps(logger.buffer) # {}

(***************************************************************************)
(* Claims about progress of the audit logger.                              *)
(***************************************************************************)
\* the event is buffered or in flight
Waiting(timestamp) == timestamp \in Stamps(logger.buffer) \cup InFlight

\* a 2xx has acknowledged the event
Delivered(timestamp) ==
    \E i \in Acknowledged : timestamp \in Stamps(requests[i].batch)

\* the capacity limit has discarded the event: it is in no place, and more
\* events have been accepted than the buffer may hold
Dropped(timestamp) ==
    /\ timestamp < now
    /\ Discarded(timestamp)
    /\ now - 1 > logger.maxBufferSize

\* C40 as stated: when the POSTs come to return 2xx and the timer keeps
\* firing, every event in the buffer or in a failed batch is eventually
\* acknowledged, and the buffer eventually is empty and stays empty.
C40_Original ==
    /\ \A timestamp \in 1..LiveEvents : Waiting(timestamp) ~> Delivered(timestamp)
    /\ <>[](logger.buffer = <<>>)

\* C40, amended: when the POSTs come to return 2xx and the timer keeps
\* firing, every event in the buffer or in a batch in flight is eventually
\* acknowledged or discarded by the capacity limit, and once the enqueues
\* have stopped the buffer eventually is empty and stays empty.
C40_EventuallyDelivered ==
    /\ \A timestamp \in 1..LiveEvents :
          Waiting(timestamp) ~> (Delivered(timestamp) \/ Dropped(timestamp))
    /\ <>[](logger.buffer = <<>>)

\* C40 witness: an event of a failed batch has been acknowledged in a later
\* request, and nothing is buffered or in flight
C40_Witness ==
    /\ logger.buffer = <<>>
    /\ pending = {}
    /\ \E i \in 1..Len(requests), j \in Acknowledged :
          /\ requests[i].response = "failed"
          /\ i < j
          /\ Stamps(requests[i].batch) \cap Stamps(requests[j].batch) # {}

====
